---- MODULE Spec2Model ----
(***************************************************************************)
(* Model of the rl-service: the market simulation environment              *)
(* (trading_env.py, class TradingEnv) and the decision engine              *)
(* (features.py and the /predict handler of main.py).                      *)
(*                                                                         *)
(* Numbers.  The program computes in binary floating point; the model      *)
(* computes the same expressions exactly, in fixed point.  Money and       *)
(* prices of the environment are integers counting 1/Unit of a currency    *)
(* unit, and every price of the model is a whole number of currency units, *)
(* so that price * transaction_cost is exact.  A quotient that is not a    *)
(* fixed-point number (the reward) is an exact fraction <<num, den>>.      *)
(***************************************************************************)
EXTENDS Integers, Sequences, FiniteSets, TLC

VARIABLES
    data,          \* TradingEnv.data['close']: the close of every row
    current_step,  \* TradingEnv.current_step (0-based row index)
    balance,       \* TradingEnv.balance
    position,      \* TradingEnv.position: -1 short, 0 flat, 1 long
    entry_price,   \* TradingEnv.entry_price
    total_pnl,     \* TradingEnv.total_pnl (cumulative realized P&L)
    trades,        \* TradingEnv.trades (the trade log)
    ret,           \* what the last reset()/step() call returned
    lastOp,        \* the last call: "init" (__init__), "reset" or "step"
    actions,       \* history: the actions passed to step since the last reset
    cleared,       \* history: the trade records the last call discarded
    called,        \* serving layer: the last call, [fn, args]
    returned,      \* serving layer: what that call returned
    trainer,       \* the RLTrainer instance: model, model_id, last_trained,
                   \* is_training, progress
    rl_state       \* main.rl_state: model_loaded, model_id, training_status

envVars == <<data, current_step, balance, position, entry_price, total_pnl,
             trades, ret, lastOp, actions, cleared>>

decisionVars == <<called, returned>>

trainerVars == <<trainer, rl_state>>

vars == <<envVars, decisionVars, trainerVars>>

----------------------------------------------------------------------------
(* Bounds of the model. *)

\* The series of every price pattern have up to lookback_window + MaxTail
\* rows.
MaxTail == 4

\* The long series has lookback_window + LongTail rows.
LongTail == 7

\* The number of distinct close prices a row can take.
PriceLevels == 3

\* The lowest close price, in currency units.
BasePrice == 1000

----------------------------------------------------------------------------
(* Exact arithmetic. *)

Abs(x) == IF x < 0 THEN -x ELSE x

Min(a, b) == IF a < b THEN a ELSE b

Max(a, b) == IF a > b THEN a ELSE b

RECURSIVE Gcd(_, _)
Gcd(a, b) == IF b = 0 THEN a ELSE Gcd(b, a % b)

\* The fraction n/d in lowest terms with a positive denominator.
Frac(n, d) ==
    LET s == IF d < 0 THEN -1 ELSE 1
        g == Gcd(Abs(n), Abs(d))
    IN  <<(s * n) \div g, (s * d) \div g>>

FracAdd(a, b) ==
    LET g == Gcd(a[2], b[2])
    IN  Frac(a[1] * (b[2] \div g) + b[1] * (a[2] \div g), (a[2] \div g) * b[2])

FracNeg(a) == <<-a[1], a[2]>>

FracSub(a, b) == FracAdd(a, FracNeg(b))

\* The product, reduced crosswise before multiplying.
FracMul(a, b) ==
    LET g1 == Gcd(Abs(a[1]), b[2])
        g2 == Gcd(Abs(b[1]), a[2])
    IN  Frac((a[1] \div g1) * (b[1] \div g2), (a[2] \div g2) * (b[2] \div g1))

\* a / b, b # 0.
FracDiv(a, b) ==
    FracMul(a, IF b[1] < 0 THEN <<-b[2], -b[1]>> ELSE <<b[2], b[1]>>)

FracAbs(a) == <<Abs(a[1]), a[2]>>

FracLt(a, b) == a[1] * b[2] < b[1] * a[2]

FracLe(a, b) == a[1] * b[2] <= b[1] * a[2]

FracMin(a, b) == IF FracLt(b, a) THEN b ELSE a

FracMax(a, b) == IF FracLt(a, b) THEN b ELSE a

Whole(n) == <<n, 1>>

RECURSIVE Pow10(_)
Pow10(k) == IF k = 0 THEN 1 ELSE 10 * Pow10(k - 1)

\* Long division: <<quotient, remainder>> of (q + r/d) * 10^k.
RECURSIVE ShiftDigits(_, _, _, _)
ShiftDigits(q, r, d, k) ==
    IF k = 0 THEN <<q, r>>
    ELSE ShiftDigits(q * 10 + (r * 10) \div d, (r * 10) % d, d, k - 1)

\* Python's round(x, digits): to the nearest multiple of 10^-digits, a tie
\* to the even one.
Round(a, digits) ==
    LET s  == IF a[1] < 0 THEN -1 ELSE 1
        n  == Abs(a[1])
        qr == ShiftDigits(n \div a[2], n % a[2], a[2], digits)
        up == 2 * qr[2] > a[2] \/ (2 * qr[2] = a[2] /\ qr[1] % 2 = 1)
    IN  Frac(s * (IF up THEN qr[1] + 1 ELSE qr[1]), Pow10(digits))

----------------------------------------------------------------------------
(* TradingEnv: constructor parameters (their defaults). *)

\* transaction_cost = 0.001 = 1/Unit; money is counted in 1/Unit of a
\* currency unit, so price * transaction_cost = price \div Unit exactly.
Unit == 1000

initial_balance == 10000 * Unit

max_position_size == 1

lookback_window == 20

Price(k) == (BasePrice + k * k * k) * Unit

Prices == {Price(k) : k \in 0 .. PriceLevels - 1}

\* A long series: lookback_window warm-up rows, then LongTail rows whose
\* prices cycle through the levels.
LongSeries ==
    [i \in 1 .. lookback_window |-> Price(0)]
        \o [i \in 1 .. LongTail |-> Price(i % PriceLevels)]

\* The series: lookback_window warm-up rows, then 2 .. MaxTail rows of any
\* prices, and the long series.
Series ==
    UNION {{[i \in 1 .. lookback_window |-> Price(0)] \o tail :
              tail \in [1 .. n -> Prices]} : n \in 2 .. MaxTail}
    \cup {LongSeries}

\* data.iloc[i]['close'], i a 0-based row index.
Close(i) == data[i + 1]

SeriesLength == Len(data)

----------------------------------------------------------------------------
(* TradingEnv._get_observation: the features of the row at `step` (named   *)
(* by the row's index and its close), the position, the normalised P&L     *)
(* and the time position.                                                  *)

\* Mutant: the observation is built from the row before `step`.
GetObservationOfPreviousRow(step, pos, pnl) ==
    [row      |-> step - 1,
     close    |-> Close(step - 1),
     position |-> pos,
     pnl      |-> Frac(pnl, initial_balance),
     time     |-> Frac(2 * (step - 1) - SeriesLength, SeriesLength)]

GetObservation(step, pos, pnl) ==
    [row      |-> step,
     close    |-> Close(step),
     position |-> pos,
     pnl      |-> Frac(pnl, initial_balance),
     time     |-> Frac(2 * step - SeriesLength, SeriesLength)]

NoInfo == [k \in {} |-> 0]

----------------------------------------------------------------------------
(* TradingEnv.step: the position change (lines 157-187).  `s` is the        *)
(* record of the fields the branch reads and writes.                        *)

TransactionCost(current_price) == current_price \div Unit

\* Mutant: the close forgets to deduct the transaction cost.
ClosedStateNoCost(s, kind, pnl, current_price) ==
    [s EXCEPT !.total_pnl = s.total_pnl + pnl,
              !.trades = Append(s.trades,
                                [type |-> kind, price |-> current_price, pnl |-> pnl])]

\* Mutant: the close overwrites the trade log with the new record.
ClosedStateOverwritesLog(s, kind, pnl, current_price) ==
    [s EXCEPT !.total_pnl = s.total_pnl + pnl - TransactionCost(current_price),
              !.trades = <<[type |-> kind, price |-> current_price, pnl |-> pnl]>>]

ClosedState(s, kind, pnl, current_price) ==
    [s EXCEPT !.total_pnl = s.total_pnl + pnl - TransactionCost(current_price),
              !.trades = Append(s.trades,
                                [type |-> kind, price |-> current_price, pnl |-> pnl])]

OpenedState(s, dir, current_price) ==
    [s EXCEPT !.position = dir,
              !.entry_price = current_price,
              !.balance = s.balance - TransactionCost(current_price)]

\* Mutant: Long adds to the position without checking that it is already long.
ApplyLongPyramids(s, current_price) ==
    LET c == IF s.position = -1
             THEN ClosedState(s, "close_short",
                              (s.entry_price - current_price) * max_position_size,
                              current_price)
             ELSE s
    IN  OpenedState(c, c.position + 1, current_price)

ApplyLong(s, current_price) ==
    LET c == IF s.position = -1
             THEN ClosedState(s, "close_short",
                              (s.entry_price - current_price) * max_position_size,
                              current_price)
             ELSE s
    IN  IF c.position # 1 THEN OpenedState(c, 1, current_price) ELSE c

\* Mutant: Short reverses an open long without closing it.
ApplyShortNoClose(s, current_price) ==
    IF s.position # -1 THEN OpenedState(s, -1, current_price) ELSE s

ApplyShort(s, current_price) ==
    LET c == IF s.position = 1
             THEN ClosedState(s, "close_long",
                              (current_price - s.entry_price) * max_position_size,
                              current_price)
             ELSE s
    IN  IF c.position # -1 THEN OpenedState(c, -1, current_price) ELSE c

\* Mutant: Hold leaves the position as it is.
ApplyHoldNoOp(s, current_price) == s

\* Mutant: Hold closes without checking that a position is open.
ApplyHoldAlwaysCloses(s, current_price) ==
    [ClosedState(s, IF s.position = -1 THEN "close_short" ELSE "close_long",
                 s.position * (current_price - s.entry_price) * max_position_size,
                 current_price) EXCEPT !.position = 0]

ApplyHold(s, current_price) ==
    IF s.position = 1
    THEN [ClosedState(s, "close_long",
                      (current_price - s.entry_price) * max_position_size,
                      current_price) EXCEPT !.position = 0]
    ELSE IF s.position = -1
    THEN [ClosedState(s, "close_short",
                      (s.entry_price - current_price) * max_position_size,
                      current_price) EXCEPT !.position = 0]
    ELSE s

ApplyAction(s, action, current_price) ==
    IF action = 1 THEN ApplyLong(s, current_price)
    ELSE IF action = 2 THEN ApplyShort(s, current_price)
    ELSE ApplyHold(s, current_price)

----------------------------------------------------------------------------
(* TradingEnv.step: the reward (lines 189-203), an exact fraction.          *)

\* Mutant: the move of the price counts the same way for a short.
UnrealizedUnsigned(s, current_price) ==
    IF s.position # 0 THEN Frac(current_price - s.entry_price, s.entry_price)
    ELSE <<0, 1>>

Unrealized(s, current_price) ==
    IF s.position = 1 THEN Frac(current_price - s.entry_price, s.entry_price)
    ELSE IF s.position = -1 THEN Frac(s.entry_price - current_price, s.entry_price)
    ELSE <<0, 1>>

BaseReward(s, current_price) ==
    LET u == Unrealized(s, current_price)
    IN  FracAdd(Frac(s.total_pnl * 100, initial_balance), Frac(u[1] * 10, u[2]))

\* Mutant: the penalty applies from the first step past warm-up.
ChurnPenaltyFromFirstStep(s, step) ==
    /\ Len(s.trades) > 0
    /\ step > lookback_window
    /\ 10 * Len(s.trades) > 3 * (step - lookback_window)

\* trade_frequency = len(trades) / (current_step - lookback_window) > 0.3
ChurnPenalty(s, step) ==
    /\ Len(s.trades) > 0
    /\ step > lookback_window + 1
    /\ 10 * Len(s.trades) > 3 * (step - lookback_window)

Reward(s, current_price, step) ==
    IF ChurnPenalty(s, step)
    THEN FracAdd(BaseReward(s, current_price), <<-1, 10>>)
    ELSE BaseReward(s, current_price)

\* Mutant: the episode ends only past the last row.
TerminatedAtEnd(step) == step >= SeriesLength

\* Mutant: the episode ends one row early.
TerminatedOneEarly(step) == step >= SeriesLength - 2

Terminated(step) == step >= SeriesLength - 1

\* Mutant: the reported balance leaves the realized P&L out.
InfoBalanceOnly(s) ==
    [total_pnl |-> s.total_pnl, position |-> s.position, trades |-> Len(s.trades),
     balance |-> s.balance]

\* The info dictionary step returns (lines 212-217).
Info(s) ==
    [total_pnl |-> s.total_pnl, position |-> s.position, trades |-> Len(s.trades),
     balance |-> s.balance + s.total_pnl]

----------------------------------------------------------------------------
(* The environment's operations. *)

EnvState ==
    [position |-> position, entry_price |-> entry_price, balance |-> balance,
     total_pnl |-> total_pnl, trades |-> trades]

\* TradingEnv.__init__ (lines 65-71): the state after construction.
EnvInit ==
    /\ data \in Series
    /\ current_step = 0
    /\ balance = initial_balance
    /\ position = 0
    /\ entry_price = 0
    /\ total_pnl = 0
    /\ trades = <<>>
    /\ ret = [obs |-> <<>>, reward |-> <<0, 1>>, terminated |-> FALSE,
              truncated |-> FALSE, info |-> NoInfo]
    /\ lastOp = "init"
    /\ actions = <<>>
    /\ cleared = 0

\* Mutant: reset keeps the realized P&L of the previous episode.
ResetKeepsPnl ==
    /\ current_step' = lookback_window
    /\ balance' = initial_balance
    /\ position' = 0
    /\ entry_price' = 0
    /\ total_pnl' = total_pnl
    /\ trades' = <<>>
    /\ ret' = [obs |-> GetObservation(lookback_window, 0, total_pnl),
               reward |-> <<0, 1>>,
               terminated |-> FALSE, truncated |-> FALSE, info |-> NoInfo]
    /\ lastOp' = "reset"
    /\ actions' = <<>>
    /\ cleared' = Len(trades)
    /\ UNCHANGED <<data, decisionVars, trainerVars>>

\* TradingEnv.reset (lines 132-147).
Reset ==
    /\ current_step' = lookback_window
    /\ balance' = initial_balance
    /\ position' = 0
    /\ entry_price' = 0
    /\ total_pnl' = 0
    /\ trades' = <<>>
    /\ ret' = [obs |-> GetObservation(lookback_window, 0, 0), reward |-> <<0, 1>>,
               terminated |-> FALSE, truncated |-> FALSE, info |-> NoInfo]
    /\ lastOp' = "reset"
    /\ actions' = <<>>
    /\ cleared' = Len(trades)
    /\ UNCHANGED <<data, decisionVars, trainerVars>>

\* TradingEnv.step (lines 149-219).  The callers reset the environment
\* before the first step and stop stepping once it has terminated
\* (trainer.py lines 332-341).
Step(action) ==
    /\ lastOp # "init"
    /\ ~ret.terminated
    /\ LET current_price == Close(current_step)
           s == ApplyAction(EnvState, action, current_price)
           reward == Reward(s, current_price, current_step)
           next_step == current_step + 1
       IN  /\ position' = s.position
           /\ entry_price' = s.entry_price
           /\ balance' = s.balance
           /\ total_pnl' = s.total_pnl
           /\ trades' = s.trades
           /\ current_step' = next_step
           /\ ret' = [obs |-> GetObservation(next_step, s.position, s.total_pnl),
                      reward |-> reward,
                      terminated |-> Terminated(next_step),
                      truncated |-> FALSE,
                      info |-> Info(s)]
    /\ lastOp' = "step"
    /\ actions' = Append(actions, action)
    /\ cleared' = 0
    /\ UNCHANGED <<data, decisionVars, trainerVars>>

StepAny == \E action \in {0, 1, 2} : Step(action)

EnvNext == Reset \/ StepAny

----------------------------------------------------------------------------
(* features.py: the decision engine's pure functions.  Prices, ratios and  *)
(* confidences are exact fractions.  An optional value is <<>> (None) or   *)
(* <<v>>.  A zone (order block) is [type, high, low, strength], a gap      *)
(* (fair value gap) [type, high, low], a structural snapshot (SMCFeatures) *)
(* [orderBlocks, fairValueGaps, bosDirection, oteZone, killZone], a volume *)
(* snapshot [volumeRatio].  A text is the sequence of its parts; the        *)
(* reasoning of score_smc_bias is the sequence of its reasons and of the   *)
(* separators between them, each a text.                                   *)

None == <<>>

Some(v) == <<v>>

\* Mutant: among equal keys the last one is taken.
FirstBestTakesLast(keys, sign) ==
    CHOOSE i \in 1 .. Len(keys) :
        /\ \A j \in 1 .. Len(keys) :
              IF sign = 1 THEN FracLe(keys[j], keys[i]) ELSE FracLe(keys[i], keys[j])
        /\ \A j \in i + 1 .. Len(keys) : keys[j] # keys[i]

\* The index of the first element of `keys` that is the greatest (sign = 1)
\* or the least (sign = -1): Python's max(seq, key) and min(seq, key).
FirstBest(keys, sign) ==
    CHOOSE i \in 1 .. Len(keys) :
        /\ \A j \in 1 .. Len(keys) :
              IF sign = 1 THEN FracLe(keys[j], keys[i]) ELSE FracLe(keys[i], keys[j])
        /\ \A j \in 1 .. i - 1 : keys[j] # keys[i]

\* max(blocks, key=field) for sign = 1, min(blocks, key=field) for sign = -1;
\* None for no blocks.
PickFirstBest(blocks, field, sign) ==
    IF blocks = <<>> THEN None
    ELSE Some(blocks[FirstBest([i \in 1 .. Len(blocks) |-> blocks[i][field]], sign)])

\* get_nearest_order_block
GetNearestOrderBlock(order_blocks, current_price, block_type) ==
    LET IsType(ob) == ob.type = block_type
        Below(ob) == FracLt(ob.high, current_price)
        Above(ob) == FracLt(current_price, ob.low)
    IN  IF block_type = "BULLISH"
        THEN PickFirstBest(SelectSeq(SelectSeq(order_blocks, IsType), Below), "high", 1)
        ELSE PickFirstBest(SelectSeq(SelectSeq(order_blocks, IsType), Above), "low", -1)

\* Mutant: a price on a bound of the gap is not inside it.
IsInFvgExclusive(fair_value_gaps, current_price) ==
    LET Holds(fvg) == FracLt(fvg.low, current_price) /\ FracLt(current_price, fvg.high)
        inside == SelectSeq(fair_value_gaps, Holds)
    IN  IF inside # <<>> THEN Some(inside[1]) ELSE None

\* is_in_fvg
IsInFvg(fair_value_gaps, current_price) ==
    LET Holds(fvg) == FracLe(fvg.low, current_price) /\ FracLe(current_price, fvg.high)
        inside == SelectSeq(fair_value_gaps, Holds)
    IN  IF inside # <<>> THEN Some(inside[1]) ELSE None

\* "; ".join(reasons)
RECURSIVE Join(_)
Join(reasons) ==
    IF Len(reasons) <= 1 THEN reasons
    ELSE <<reasons[1], <<"; ">>>> \o Join(Tail(reasons))

\* w in direction: the tag is a sequence of words.
Contains(direction, w) == \E i \in 1 .. Len(direction) : direction[i] = w

\* score_smc_bias, rule 1: break of structure.
BosRule(smc, base_action) ==
    IF smc.bosDirection = "BULLISH" /\ base_action = "LONG"
    THEN [delta |-> <<3, 20>>, reasons |-> <<<<"BOS confirms bullish bias">>>>]
    ELSE IF smc.bosDirection = "BEARISH" /\ base_action = "SHORT"
    THEN [delta |-> <<3, 20>>, reasons |-> <<<<"BOS confirms bearish bias">>>>]
    ELSE IF /\ smc.bosDirection # "NONE"
            /\ \/ smc.bosDirection = "BULLISH" /\ base_action = "SHORT"
               \/ smc.bosDirection = "BEARISH" /\ base_action = "LONG"
    THEN [delta |-> <<-1, 5>>,
          reasons |-> <<<<"BOS conflicts (market ", smc.bosDirection, ")">>>>]
    ELSE [delta |-> <<0, 1>>, reasons |-> <<>>]

\* score_smc_bias, rule 2: order block within 2% of the price (lines
\* 127-134), nearest_ob being what get_nearest_order_block returned.
OrderBlockBonus(nearest_ob, ob_type, current_price) ==
    LET ob_mid == FracDiv(FracAdd(nearest_ob[1].high, nearest_ob[1].low), Whole(2))
        distance_pct == FracDiv(FracAbs(FracSub(current_price, ob_mid)), current_price)
    IN  IF nearest_ob # None /\ FracLt(distance_pct, <<1, 50>>)
        THEN [delta |-> FracMin(FracMul(nearest_ob[1].strength, Whole(5)), <<1, 5>>),
              reasons |-> <<<<"Near ", ob_type, " OB (strength: ",
                              Round(FracMul(nearest_ob[1].strength, Whole(100)), 1),
                              "%)">>>>]
        ELSE [delta |-> <<0, 1>>, reasons |-> <<>>]

ObType(base_action) == IF base_action = "LONG" THEN "BULLISH" ELSE "BEARISH"

OrderBlockRule(smc, current_price, base_action) ==
    OrderBlockBonus(
        GetNearestOrderBlock(smc.orderBlocks, current_price, ObType(base_action)),
        ObType(base_action), current_price)

\* score_smc_bias, rule 3: the price inside a fair value gap (lines
\* 138-146), current_fvg being what is_in_fvg returned.
FvgBonus(current_fvg, base_action) ==
    IF current_fvg = None
    THEN [delta |-> <<0, 1>>, reasons |-> <<>>]
    ELSE IF \/ current_fvg[1].type = "BULLISH" /\ base_action = "LONG"
            \/ current_fvg[1].type = "BEARISH" /\ base_action = "SHORT"
    THEN [delta |-> <<1, 10>>, reasons |-> <<<<"In ", current_fvg[1].type, " FVG">>>>]
    ELSE [delta |-> <<-1, 10>>,
          reasons |-> <<<<"In opposing FVG (", current_fvg[1].type, ")">>>>]

FvgRule(smc, current_price, base_action) ==
    FvgBonus(IsInFvg(smc.fairValueGaps, current_price), base_action)

\* score_smc_bias, rule 4: the optimal-trade-entry zone.
OteRule(smc, current_price, base_action) ==
    LET ote == smc.oteZone[1]
    IN  IF /\ smc.oteZone # None
           /\ FracLe(ote.low, current_price)
           /\ FracLe(current_price, ote.high)
        THEN IF Contains(ote.direction, "BULLISH") /\ base_action = "LONG"
             THEN [delta |-> <<3, 20>>, reasons |-> <<<<"In OTE zone for long entry">>>>]
             ELSE IF Contains(ote.direction, "BEARISH") /\ base_action = "SHORT"
             THEN [delta |-> <<3, 20>>, reasons |-> <<<<"In OTE zone for short entry">>>>]
             ELSE [delta |-> <<0, 1>>, reasons |-> <<>>]
        ELSE [delta |-> <<0, 1>>, reasons |-> <<>>]

\* score_smc_bias, rule 5: the kill zone.
KillZoneRule(smc) ==
    IF smc.killZone \in {"LONDON", "NEW_YORK"}
    THEN [delta |-> <<1, 10>>, reasons |-> <<<<smc.killZone, " kill zone active">>>>]
    ELSE IF smc.killZone = "ASIAN"
    THEN [delta |-> <<1, 20>>, reasons |-> <<<<"Asian session (range likely)">>>>]
    ELSE [delta |-> <<0, 1>>, reasons |-> <<>>]

\* Mutant: the structure and zone adjustments compose as multipliers.
AccumulateMultiplies(r1, r2, r3, r4, r5) ==
    <<FracAdd(FracAdd(FracAdd(FracMul(FracAdd(Whole(1), r1.delta),
                                      FracAdd(Whole(1), r2.delta)),
          r3.delta), r4.delta), r5.delta),
      IF r1.reasons \o r2.reasons \o r3.reasons \o r4.reasons \o r5.reasons # <<>>
      THEN Join(r1.reasons \o r2.reasons \o r3.reasons \o r4.reasons \o r5.reasons)
      ELSE <<<<"No SMC signals">>>>>>

\* Mutant: the session's reason is put first.
AccumulateSessionFirst(r1, r2, r3, r4, r5) ==
    <<FracAdd(FracAdd(FracAdd(FracAdd(FracAdd(Whole(1),
          r1.delta), r2.delta), r3.delta), r4.delta), r5.delta),
      IF r5.reasons \o r1.reasons \o r2.reasons \o r3.reasons \o r4.reasons # <<>>
      THEN Join(r5.reasons \o r1.reasons \o r2.reasons \o r3.reasons \o r4.reasons)
      ELSE <<<<"No SMC signals">>>>>>

\* The modifier and the reasoning of the five rules' outcomes (lines 107-108
\* and 170-171).
Accumulate(r1, r2, r3, r4, r5) ==
    <<FracAdd(FracAdd(FracAdd(FracAdd(FracAdd(Whole(1),
          r1.delta), r2.delta), r3.delta), r4.delta), r5.delta),
      IF r1.reasons \o r2.reasons \o r3.reasons \o r4.reasons \o r5.reasons # <<>>
      THEN Join(r1.reasons \o r2.reasons \o r3.reasons \o r4.reasons \o r5.reasons)
      ELSE <<<<"No SMC signals">>>>>>

\* score_smc_bias: <<modifier, reasoning>>
ScoreSmcBias(smc, current_price, base_action) ==
    Accumulate(BosRule(smc, base_action),
               OrderBlockRule(smc, current_price, base_action),
               FvgRule(smc, current_price, base_action),
               OteRule(smc, current_price, base_action),
               KillZoneRule(smc))

\* Mutant: the bands are open on their lower bound.
ScoreVolumeConfirmationOpenBands(volume, base_action) ==
    LET ratio == volume.volumeRatio
        shown == <<"(", Round(ratio, 1), "x avg)">>
    IN  IF FracLt(Whole(2), ratio)
        THEN <<<<5, 4>>, <<"High volume confirmation ">> \o shown>>
        ELSE IF FracLt(<<3, 2>>, ratio)
        THEN <<<<23, 20>>, <<"Above average volume ">> \o shown>>
        ELSE IF FracLt(<<4, 5>>, ratio)
        THEN <<<<1, 1>>, <<"Normal volume ">> \o shown>>
        ELSE IF FracLt(<<1, 2>>, ratio)
        THEN <<<<17, 20>>, <<"Below average volume ">> \o shown>>
        ELSE <<<<7, 10>>, <<"Very low volume - suspicious ">> \o shown>>

\* score_volume_confirmation: <<modifier, reasoning>>
ScoreVolumeConfirmation(volume, base_action) ==
    LET ratio == volume.volumeRatio
        shown == <<"(", Round(ratio, 1), "x avg)">>
    IN  IF FracLe(Whole(2), ratio)
        THEN <<<<5, 4>>, <<"High volume confirmation ">> \o shown>>
        ELSE IF FracLe(<<3, 2>>, ratio)
        THEN <<<<23, 20>>, <<"Above average volume ">> \o shown>>
        ELSE IF FracLe(<<4, 5>>, ratio)
        THEN <<<<1, 1>>, <<"Normal volume ">> \o shown>>
        ELSE IF FracLe(<<1, 2>>, ratio)
        THEN <<<<17, 20>>, <<"Below average volume ">> \o shown>>
        ELSE <<<<7, 10>>, <<"Very low volume - suspicious ">> \o shown>>

\* Mutant: the upper clamp is missing.
CalculateEnhancedConfidenceNoCap(base_confidence, smc_modifier, volume_modifier, smc_reason, volume_reason) ==
    LET raw_confidence == FracMul(FracMul(base_confidence, smc_modifier),
                                  volume_modifier)
        final_confidence == FracMax(<<1, 5>>, raw_confidence)
    IN  <<Round(final_confidence, 4),
          <<"SMC: ">> \o smc_reason \o <<" | Volume: ">> \o volume_reason>>

\* calculate_enhanced_confidence: <<final_confidence, reasoning>>
CalculateEnhancedConfidence(base_confidence, smc_modifier, volume_modifier, smc_reason, volume_reason) ==
    LET raw_confidence == FracMul(FracMul(base_confidence, smc_modifier),
                                  volume_modifier)
        final_confidence == FracMax(<<1, 5>>, FracMin(<<19, 20>>, raw_confidence))
    IN  <<Round(final_confidence, 4),
          <<"SMC: ">> \o smc_reason \o <<" | Volume: ">> \o volume_reason>>

\* Mutant: the low-volume rule fires whenever no kill zone is active.
ShouldPreferHoldKillZoneOnly(smc, volume, base_confidence) ==
    IF smc.killZone = "NONE"
    THEN <<TRUE, "Outside kill zone with very low volume">>
    ELSE IF FracLt(base_confidence, <<11, 20>>)
            /\ smc.bosDirection \in {"BULLISH", "BEARISH"}
    THEN <<TRUE, "Weak signal against market structure">>
    ELSE <<FALSE, "">>

\* should_prefer_hold: <<should_hold, reason>>
ShouldPreferHold(smc, volume, base_confidence) ==
    IF smc.killZone = "NONE" /\ FracLt(volume.volumeRatio, <<1, 2>>)
    THEN <<TRUE, "Outside kill zone with very low volume">>
    ELSE IF FracLt(base_confidence, <<11, 20>>)
            /\ smc.bosDirection \in {"BULLISH", "BEARISH"}
    THEN <<TRUE, "Weak signal against market structure">>
    ELSE <<FALSE, "">>

\* The empty dict.
NoLevels == [k \in {} |-> 0]

\* Mutant: the last bullish gap below the price sets the stop.
RECURSIVE LongGapStopTakesLast(_, _, _)
LongGapStopTakesLast(gaps, current_price, stop_loss) ==
    IF gaps = <<>> THEN stop_loss
    ELSE LET fvg == Head(gaps)
             fvg_sl == FracMul(fvg.low, <<499, 500>>)
         IN  LongGapStopTakesLast(Tail(gaps), current_price,
                 IF fvg.type = "BULLISH" /\ FracLt(fvg.high, current_price)
                 THEN fvg_sl ELSE stop_loss)

\* calculate_trade_levels, LONG: the stop, lines 275-293.
RECURSIVE LongGapStop(_, _, _)
LongGapStop(gaps, current_price, stop_loss) ==
    IF gaps = <<>> THEN stop_loss
    ELSE LET fvg == Head(gaps)
             fvg_sl == FracMul(fvg.low, <<499, 500>>)
         IN  LongGapStop(Tail(gaps), current_price,
                 IF /\ fvg.type = "BULLISH"
                    /\ FracLt(fvg.high, current_price)
                    /\ FracLt(stop_loss, fvg_sl)
                 THEN fvg_sl ELSE stop_loss)

\* The nearest bullish order block below the price is found as
\* get_nearest_order_block finds it (lines 278-285).
LongStop(current_price, smc, atr) ==
    LongGapStop(smc.fairValueGaps, current_price,
        IF GetNearestOrderBlock(smc.orderBlocks, current_price, "BULLISH") # None
        THEN FracMul(GetNearestOrderBlock(smc.orderBlocks, current_price,
                                          "BULLISH")[1].low, <<499, 500>>)
        ELSE FracSub(current_price, FracMul(atr, <<3, 2>>)))

\* Mutant: the last bearish gap above the price sets the stop.
RECURSIVE ShortGapStopTakesLast(_, _, _)
ShortGapStopTakesLast(gaps, current_price, stop_loss) ==
    IF gaps = <<>> THEN stop_loss
    ELSE LET fvg == Head(gaps)
             fvg_sl == FracMul(fvg.high, <<501, 500>>)
         IN  ShortGapStopTakesLast(Tail(gaps), current_price,
                 IF fvg.type = "BEARISH" /\ FracLt(current_price, fvg.low)
                 THEN fvg_sl ELSE stop_loss)

\* calculate_trade_levels, SHORT: the stop, lines 304-322.
RECURSIVE ShortGapStop(_, _, _)
ShortGapStop(gaps, current_price, stop_loss) ==
    IF gaps = <<>> THEN stop_loss
    ELSE LET fvg == Head(gaps)
             fvg_sl == FracMul(fvg.high, <<501, 500>>)
         IN  ShortGapStop(Tail(gaps), current_price,
                 IF /\ fvg.type = "BEARISH"
                    /\ FracLt(current_price, fvg.low)
                    /\ FracLt(fvg_sl, stop_loss)
                 THEN fvg_sl ELSE stop_loss)

ShortStop(current_price, smc, atr) ==
    ShortGapStop(smc.fairValueGaps, current_price,
        IF GetNearestOrderBlock(smc.orderBlocks, current_price, "BEARISH") # None
        THEN FracMul(GetNearestOrderBlock(smc.orderBlocks, current_price,
                                          "BEARISH")[1].high, <<501, 500>>)
        ELSE FracAdd(current_price, FracMul(atr, <<3, 2>>)))

\* Mutant: only a range of zero is replaced by 1% of the price.
EffectiveAtrKeepsNegative(atr, current_price) ==
    IF atr[1] # 0 THEN atr ELSE FracMul(current_price, <<1, 100>>)

\* Lines 269-271: atr if atr > 0 else current_price * 0.01
EffectiveAtr(atr, current_price) ==
    IF atr[1] > 0 THEN atr ELSE FracMul(current_price, <<1, 100>>)

\* Lines 295-300 and 324-329: the target.
TakeProfit(action, entry, stop_loss, confidence) ==
    LET rr_ratio == FracAdd(<<3, 2>>, FracMul(confidence, Whole(2)))
    IN  IF action = "LONG"
        THEN FracAdd(entry, FracMul(FracSub(entry, stop_loss), rr_ratio))
        ELSE FracSub(entry, FracMul(FracSub(stop_loss, entry), rr_ratio))

\* Mutant: the risk is taken as entry - stop, without its absolute value.
ActualRrSignedRisk(entry, stop_loss, take_profit) ==
    IF FracSub(entry, stop_loss)[1] # 0
    THEN FracDiv(FracAbs(FracSub(take_profit, entry)), FracSub(entry, stop_loss))
    ELSE Whole(0)

\* Lines 335-338: the risk/reward ratio of the final levels.
ActualRr(entry, stop_loss, take_profit) ==
    IF FracAbs(FracSub(entry, stop_loss))[1] > 0
    THEN FracDiv(FracAbs(FracSub(take_profit, entry)), FracAbs(FracSub(entry, stop_loss)))
    ELSE Whole(0)

\* Lines 331-345: the levels returned.
LevelsDict(entry, stop_loss, take_profit) ==
    IF stop_loss[1] <= 0 \/ take_profit[1] <= 0 THEN NoLevels
    ELSE [entry |-> Round(entry, 2),
          stopLoss |-> Round(stop_loss, 2),
          takeProfit |-> Round(take_profit, 2),
          riskRewardRatio |-> Round(ActualRr(entry, stop_loss, take_profit), 2)]

LevelsWithStop(action, entry, stop_loss, confidence) ==
    LevelsDict(entry, stop_loss, TakeProfit(action, entry, stop_loss, confidence))

\* calculate_trade_levels: the dict it returns.  current_price is a number.
CalculateTradeLevels(action, current_price, smc, atr, confidence) ==
    IF action = "HOLD" \/ current_price[1] <= 0 THEN NoLevels
    ELSE LevelsWithStop(action, current_price,
             IF action = "LONG"
             THEN LongStop(current_price, smc, EffectiveAtr(atr, current_price))
             ELSE ShortStop(current_price, smc, EffectiveAtr(atr, current_price)),
             confidence)

----------------------------------------------------------------------------
(* main.py: the /predict handler.  A request is [currentPrice, features,    *)
(* smc, volume]: currentPrice, smc and volume optional, features a list of *)
(* numbers.                                                                *)

\* trade_levels.get(k)
Get(trade_levels, k) ==
    IF k \in DOMAIN trade_levels THEN Some(trade_levels[k]) ELSE None

\* Mutant: a missing risk/reward ratio defaults to 0.
TradeLevelFieldsDefaultZero(trade_levels) ==
    [entry |-> Get(trade_levels, "entry"),
     stopLoss |-> Get(trade_levels, "stopLoss"),
     takeProfit |-> Get(trade_levels, "takeProfit"),
     riskRewardRatio |-> IF "riskRewardRatio" \in DOMAIN trade_levels
                         THEN Some(trade_levels["riskRewardRatio"])
                         ELSE Some(Whole(0))]

\* The four optional trade-level fields of the response (lines 275-278 and
\* 394-397).
TradeLevelFields(trade_levels) ==
    [entry |-> Get(trade_levels, "entry"),
     stopLoss |-> Get(trade_levels, "stopLoss"),
     takeProfit |-> Get(trade_levels, "takeProfit"),
     riskRewardRatio |-> Get(trade_levels, "riskRewardRatio")]

\* RLPrediction(...)
Prediction(action, confidence, expected_return, model_version, reasoning, smc_analysis, volume_analysis, trade_levels) ==
    LET f == TradeLevelFields(trade_levels)
    IN  [action |-> action,
         confidence |-> confidence,
         expectedReturn |-> expected_return,
         modelVersion |-> model_version,
         reasoning |-> reasoning,
         smcAnalysis |-> smc_analysis,
         volumeAnalysis |-> volume_analysis,
         entry |-> f.entry,
         stopLoss |-> f.stopLoss,
         takeProfit |-> f.takeProfit,
         riskRewardRatio |-> f.riskRewardRatio]

\* Lines 227-235: the current price, None when the request gives neither a
\* price nor features.
CurrentPrice(request) ==
    IF /\ (request.currentPrice = None \/ request.currentPrice[1][1] = 0)
       /\ request.features # <<>>
    THEN LET first_feature == request.features[1]
         IN  IF FracLt(Whole(100), first_feature) THEN Some(first_feature)
             ELSE IF /\ Len(request.features) > 4
                     /\ FracLt(Whole(100), request.features[5])
             THEN Some(request.features[5])
             ELSE Some(Whole(50000))
    ELSE request.currentPrice

\* request.features[6] if len(request.features) > 6 else 0
Atr(request) ==
    IF Len(request.features) > 6 THEN request.features[7] ELSE Whole(0)

ActionMap(action_idx) ==
    IF action_idx = 1 THEN "LONG" ELSE IF action_idx = 2 THEN "SHORT" ELSE "HOLD"

\* Lines 239-281: the learned-model path.  `model` is what trainer.predict
\* does: it raises, or returns (action_idx, confidence).  The path raises
\* too when calculate_trade_levels compares a None price with 0.
ModelPathRaises(request, model) ==
    \/ model.raises
    \/ /\ ActionMap(model.action_idx) # "HOLD"
       /\ request.smc # None
       /\ CurrentPrice(request) = None

ModelPath(request, model) ==
    LET action == ActionMap(model.action_idx)
        confidence == model.confidence
        trade_levels ==
            IF action # "HOLD" /\ request.smc # None
            THEN CalculateTradeLevels(action, CurrentPrice(request)[1],
                                      request.smc[1], Atr(request), confidence)
            ELSE NoLevels
        expected_return ==
            IF action # "HOLD"
            THEN FracMul(FracSub(confidence, <<1, 2>>), <<3, 20>>)
            ELSE Whole(0)
    IN  [response |->
             Prediction(action, Round(confidence, 4), Round(expected_return, 4),
                        "trainer.model_id",
                        <<"Real RL model prediction: ", action, " with ",
                          Round(FracMul(confidence, Whole(100)), 1), "% confidence">>,
                        <<"Model-based decision">>, <<"Model-based decision">>,
                        trade_levels),
         trace |-> [path |-> "model", drawn |-> model,
                    proposal |-> action, proposed_confidence |-> confidence,
                    base_confidence |-> confidence,
                    smc_modifier |-> Whole(1), volume_modifier |-> Whole(1),
                    should_hold |-> FALSE, blended |-> confidence]]

RECURSIVE SumOf(_)
SumOf(features) ==
    IF features = <<>> THEN Whole(0) ELSE FracAdd(Head(features), SumOf(Tail(features)))

\* Lines 285-294.
FeatureBias(request) ==
    IF request.features # <<>>
    THEN LET first_feature == request.features[1]
             feature_sum == SumOf(request.features)
         IN  IF FracLe(Whole(0), first_feature) /\ FracLe(first_feature, Whole(100))
             THEN FracDiv(FracSub(first_feature, Whole(50)), Whole(50))
             ELSE FracDiv(feature_sum, FracMax(FracAbs(feature_sum), Whole(1)))
    ELSE Whole(0)

\* Mutant: the proposal's confidence starts from 0.3, not from 0.5.
BaseProposalLowConfidence(request) ==
    LET feature_bias == FeatureBias(request)
        conf == FracMin(FracAdd(<<3, 10>>, FracMul(FracAbs(feature_bias), <<3, 10>>)),
                        <<3, 4>>)
    IN  IF FracLt(<<1, 5>>, feature_bias) THEN <<"LONG", conf>>
        ELSE IF FracLt(feature_bias, <<-1, 5>>) THEN <<"SHORT", conf>>
        ELSE <<"HOLD", <<11, 20>>>>

\* Lines 297-305: the proposal <<base_action, base_confidence>>.
BaseProposal(request) ==
    LET feature_bias == FeatureBias(request)
        conf == FracMin(FracAdd(<<1, 2>>, FracMul(FracAbs(feature_bias), <<3, 10>>)),
                        <<3, 4>>)
    IN  IF FracLt(<<1, 5>>, feature_bias) THEN <<"LONG", conf>>
        ELSE IF FracLt(feature_bias, <<-1, 5>>) THEN <<"SHORT", conf>>
        ELSE <<"HOLD", <<11, 20>>>>

\* Lines 307-317: the bias score, <<smc_modifier, smc_reason>>.
SmcScore(request, current_price, proposal) ==
    IF request.smc # None /\ proposal[1] # "HOLD"
    THEN ScoreSmcBias(request.smc[1], current_price[1], proposal[1])
    ELSE <<Whole(1), <<"No SMC data">>>>

\* Mutant: a request without a volume snapshot is scored as low volume.
VolumeScoreAbsentIsLow(request, proposal) ==
    IF request.volume # None
    THEN ScoreVolumeConfirmation(request.volume[1], proposal[1])
    ELSE <<<<7, 10>>, <<"No volume data">>>>

\* Lines 319-328: the volume score, <<volume_modifier, volume_reason>>.
VolumeScore(request, proposal) ==
    IF request.volume # None
    THEN ScoreVolumeConfirmation(request.volume[1], proposal[1])
    ELSE <<Whole(1), <<"No volume data">>>>

\* Lines 331-336: the hold override, <<should_hold, hold_reason>>.
HoldOverride(request, proposal) ==
    IF request.smc # None /\ request.volume # None /\ proposal[1] # "HOLD"
    THEN ShouldPreferHold(request.smc[1], request.volume[1], proposal[2])
    ELSE <<FALSE, "">>

\* Lines 337-343: the handler's locals after the override.
Overridden(proposal, smc_score, volume_score, hold) ==
    [proposal |-> proposal[1],
     proposed_confidence |-> proposal[2],
     should_hold |-> hold[1],
     base_action |-> IF hold[1] THEN "HOLD" ELSE proposal[1],
     base_confidence |-> IF hold[1] THEN <<3, 5>> ELSE proposal[2],
     smc_modifier |-> IF hold[1] THEN Whole(1) ELSE smc_score[1],
     volume_modifier |-> IF hold[1] THEN Whole(1) ELSE volume_score[1],
     smc_reason |-> IF hold[1] THEN <<hold[2]>> ELSE smc_score[2],
     volume_reason |-> volume_score[2]]

\* Lines 346-352: <<final_confidence, full_reasoning>>.
Enhanced(o) ==
    CalculateEnhancedConfidence(o.base_confidence, o.smc_modifier, o.volume_modifier,
                                o.smc_reason, o.volume_reason)

\* Lines 355-359.
ExpectedReturn(o, final_confidence) ==
    IF o.base_action # "HOLD"
    THEN FracMul(FracMul(FracSub(final_confidence, <<1, 2>>), <<3, 20>>), o.smc_modifier)
    ELSE Whole(0)

\* Lines 362-365: the jitter, clamped.
Jittered(final_confidence, jitter) ==
    FracMin(FracMax(FracAdd(final_confidence, jitter), <<1, 5>>), <<19, 20>>)

\* Lines 370-381.
RuleTradeLevels(request, current_price, o, final_confidence) ==
    IF o.base_action # "HOLD" /\ request.smc # None
    THEN CalculateTradeLevels(o.base_action, current_price[1], request.smc[1],
                              Atr(request), final_confidence)
    ELSE NoLevels

\* Lines 386-398: the response, with the locals it was built from.
RuleResponse(request, current_price, o, enhanced, jitter, final_confidence) ==
    [response |->
         Prediction(o.base_action, Round(final_confidence, 4),
                    Round(ExpectedReturn(o, enhanced[1]), 4), "v1.1.0-smc",
                    enhanced[2], o.smc_reason, o.volume_reason,
                    RuleTradeLevels(request, current_price, o, final_confidence)),
     trace |-> [path |-> "rules", drawn |-> jitter, proposal |-> o.proposal,
                proposed_confidence |-> o.proposed_confidence,
                base_confidence |-> o.base_confidence,
                smc_modifier |-> o.smc_modifier,
                volume_modifier |-> o.volume_modifier,
                should_hold |-> o.should_hold, blended |-> enhanced[1]]]

RuleBlend(request, jitter, current_price, o, enhanced) ==
    RuleResponse(request, current_price, o, enhanced, jitter,
                 Jittered(enhanced[1], jitter))

RuleScore(request, jitter, current_price, o) ==
    RuleBlend(request, jitter, current_price, o, Enhanced(o))

RuleDecide(request, jitter, current_price, proposal) ==
    RuleScore(request, jitter, current_price,
              Overridden(proposal, SmcScore(request, current_price, proposal),
                         VolumeScore(request, proposal),
                         HoldOverride(request, proposal)))

\* Lines 283-398: the rule-based path.  `jitter` is what
\* random.uniform(-0.03, 0.03) returns.
RulePath(request, jitter) ==
    RuleDecide(request, jitter, CurrentPrice(request), BaseProposal(request))

\* predict (lines 219-398): `loaded` is trainer.is_model_loaded().
PredictResult(request, loaded, model, jitter) ==
    IF loaded /\ ~ModelPathRaises(request, model)
    THEN ModelPath(request, model)
    ELSE RulePath(request, jitter)

----------------------------------------------------------------------------
(* The inputs of the decision engine. *)

BullishZoneFar == [type |-> "BULLISH", high |-> Whole(95), low |-> Whole(90),
                   strength |-> <<1, 10>>]

BullishZoneNear == [type |-> "BULLISH", high |-> Whole(99), low |-> Whole(98),
                    strength |-> <<1, 50>>]

BearishZoneFar == [type |-> "BEARISH", high |-> Whole(110), low |-> Whole(105),
                   strength |-> <<1, 10>>]

BearishZoneNear == [type |-> "BEARISH", high |-> Whole(102), low |-> Whole(101),
                    strength |-> <<3, 100>>]

BullishGapBelow == [type |-> "BULLISH", high |-> Whole(97), low |-> Whole(96)]

BearishGapAt == [type |-> "BEARISH", high |-> Whole(101), low |-> Whole(99)]

BearishGapAbove == [type |-> "BEARISH", high |-> Whole(104), low |-> Whole(103)]

BosDirections == {"BULLISH", "BEARISH", "NONE"}

KillZones == {"LONDON", "NEW_YORK", "ASIAN", "NONE"}

Snapshot(zones, gaps, bos, ote, kz) ==
    [orderBlocks |-> zones, fairValueGaps |-> gaps, bosDirection |-> bos,
     oteZone |-> ote, killZone |-> kz]

\* Snapshots without zones and gaps.
PlainSnapshots ==
    {Snapshot(<<>>, <<>>, bos, None, kz) : bos \in BosDirections, kz \in {"NONE", "LONDON"}}

\* Snapshots with zones and gaps around a price of 100.
ZoneSnapshots ==
    {Snapshot(zones, gaps, bos, None, kz) :
        zones \in {<<BullishZoneFar, BearishZoneFar>>, <<BearishZoneNear, BullishZoneNear>>},
        gaps \in {<<>>, <<BullishGapBelow, BearishGapAt, BearishGapAbove>>},
        bos \in BosDirections, kz \in {"NONE", "LONDON"}}

VolumeRatios == {<<3, 10>>, <<1, 2>>, <<1, 1>>, <<5, 2>>}

Volumes == {None} \cup {Some([volumeRatio |-> r]) : r \in VolumeRatios}

FeatureLists ==
    {<<>>, <<Whole(50)>>, <<Whole(61)>>, <<Whole(100)>>, <<Whole(30)>>, <<Whole(150)>>,
     <<Whole(-3)>>,
     <<Whole(70), Whole(0), Whole(0), Whole(0), Whole(120), Whole(0), Whole(2)>>}

\* A request that gives its price has any snapshot; one that leaves the
\* price to the features has a snapshot without zones.
Requests ==
    {[currentPrice |-> Some(Whole(100)), features |-> f, smc |-> s, volume |-> v] :
        f \in FeatureLists,
        s \in {None} \cup {Some(x) : x \in PlainSnapshots \cup ZoneSnapshots},
        v \in Volumes}
    \cup
    {[currentPrice |-> None, features |-> f, smc |-> s, volume |-> v] :
        f \in FeatureLists,
        s \in {None} \cup {Some(x) : x \in PlainSnapshots},
        v \in Volumes}

\* What trainer.predict can do.
ModelOutcomes ==
    {[raises |-> TRUE, action_idx |-> 0, confidence |-> <<1, 2>>]}
    \cup {[raises |-> FALSE, action_idx |-> a, confidence |-> c] :
            a \in {0, 1, 2}, c \in {<<1, 10>>, <<3, 5>>}}

\* The outcome recorded when trainer.predict is not called.
NotCalled == [raises |-> TRUE, action_idx |-> 0, confidence |-> <<1, 2>>]

\* The jitter recorded when random.uniform is not called.
NotDrawn == <<0, 1>>

\* What random.uniform(-0.03, 0.03) can return.
Jitters == {<<-3, 100>>, <<0, 1>>, <<3, 100>>}

\* The arguments of a direct call of calculate_enhanced_confidence.
BlendBases == {<<0, 1>>, <<1, 5>>, <<283, 500>>, <<3, 5>>, <<3, 4>>, <<1, 1>>}

BlendModifiers ==
    {<<-1, 1>>, <<0, 1>>, <<7, 10>>, <<1, 1>>, <<23, 20>>, <<5, 4>>, <<17, 10>>, <<100, 1>>}

\* The base confidences of a direct call of should_prefer_hold.
HoldBases == {<<1, 2>>, <<27, 50>>, <<11, 20>>, <<3, 5>>}

\* The arguments of a direct call of calculate_trade_levels: prices that are
\* negative, zero and ordinary (and, without zones, below a cent); zones and gaps around a price
\* of 100, a zone whose low is below a cent or negative, zones whose far
\* bound lies on the wrong side of the price, and a bearish zone twice the
\* price away.
LevelActions == {"HOLD", "LONG", "SHORT"}

LevelPrices == {Whole(-1), Whole(0), Whole(100), Whole(499), Whole(501)}

\* A price below a cent.
LevelPriceTiny == <<1, 250>>

BullishZoneTiny == [type |-> "BULLISH", high |-> Whole(95), low |-> <<1, 250>>,
                    strength |-> <<1, 10>>]

BullishZoneNegative == [type |-> "BULLISH", high |-> Whole(95), low |-> Whole(-5),
                        strength |-> <<1, 10>>]

BullishZoneCrossed == [type |-> "BULLISH", high |-> Whole(498), low |-> Whole(500),
                       strength |-> <<1, 10>>]

BearishZoneCrossed == [type |-> "BEARISH", high |-> Whole(500), low |-> Whole(502),
                       strength |-> <<1, 10>>]

BearishZoneDistant == [type |-> "BEARISH", high |-> Whole(200), low |-> Whole(150),
                       strength |-> <<1, 10>>]

LevelSnapshots ==
    {Snapshot(zones, gaps, "NONE", None, "NONE") :
        zones \in {<<>>, <<BullishZoneFar, BearishZoneFar>>, <<BullishZoneTiny>>,
                   <<BullishZoneNegative, BearishZoneDistant>>,
                   <<BullishZoneCrossed, BearishZoneCrossed>>},
        gaps \in {<<>>, <<BullishGapBelow, BearishGapAt, BearishGapAbove>>}}

LevelAtrs == {Whole(0), Whole(2)}

LevelConfidences == {<<1, 5>>, <<1, 2>>, <<19, 20>>}

\* The arguments of a direct call of score_volume_confirmation: ratios
\* inside, on and just below the bounds of the bands.
BandRatios ==
    {<<3, 10>>, <<49, 100>>, <<1, 2>>, <<79, 100>>, <<4, 5>>, <<1, 1>>, <<149, 100>>,
     <<3, 2>>, <<199, 100>>, <<2, 1>>, <<5, 2>>}

BandActions == {"LONG", "SHORT", "HOLD"}

\* The arguments of a direct call of is_in_fvg: lists in and out of price
\* order, with and without overlapping gaps, and prices inside, outside and
\* on the bounds of the gaps.
BullishGapWide == [type |-> "BULLISH", high |-> Whole(102), low |-> Whole(95)]

GapLists ==
    {<<>>,
     <<BullishGapBelow, BearishGapAt, BearishGapAbove>>,
     <<BearishGapAbove, BearishGapAt, BullishGapBelow>>,
     <<BullishGapWide, BearishGapAt>>,
     <<BearishGapAt, BullishGapWide, BullishGapBelow>>}

GapPrices == {Whole(p) : p \in {94, 95, 96, 97, 98, 99, 100, 101, 102, 103, 105}}

\* The arguments of a direct call of get_nearest_order_block: lists that mix
\* both types out of price order, zones that tie on the bound compared, and
\* prices on a zone's bound.
BullishZoneNearTwin == [type |-> "BULLISH", high |-> Whole(99), low |-> Whole(97),
                        strength |-> <<1, 10>>]

BearishZoneNearTwin == [type |-> "BEARISH", high |-> Whole(104), low |-> Whole(101),
                        strength |-> <<1, 10>>]

ZoneLists ==
    {<<>>,
     <<BearishZoneFar>>,
     <<BullishZoneFar, BearishZoneFar, BearishZoneNear, BullishZoneNear>>,
     <<BullishZoneNearTwin, BullishZoneNear, BearishZoneNearTwin, BearishZoneNear>>,
     <<BullishZoneNear, BearishZoneNear, BullishZoneNearTwin, BearishZoneNearTwin,
       BullishZoneFar>>}

ZonePrices == {Whole(p) : p \in {90, 95, 96, 99, 100, 101, 105, 111}}

ZoneTypes == {"BULLISH", "BEARISH"}

\* Further arguments of a direct call of calculate_trade_levels, for the
\* placing of the stop at a price of 100: zones that tie on the bound
\* compared, in both orders; gaps on the far side of the price out of
\* price order, tighter and looser than the zone's stop, gaps of the other
\* type and gaps that hold the price; no range, a small and a wide one.
BullishGapDeep == [type |-> "BULLISH", high |-> Whole(85), low |-> Whole(80)]

BullishGapMiddle == [type |-> "BULLISH", high |-> Whole(95), low |-> Whole(94)]

BearishGapBelow == [type |-> "BEARISH", high |-> Whole(99), low |-> <<197, 2>>]

BearishGapHigh == [type |-> "BEARISH", high |-> Whole(120), low |-> Whole(115)]

BearishGapMiddle == [type |-> "BEARISH", high |-> Whole(106), low |-> Whole(105)]

BullishGapAbove == [type |-> "BULLISH", high |-> <<203, 2>>, low |-> Whole(101)]

StopZoneLists ==
    {<<>>,
     <<BullishZoneFar, BearishZoneFar>>,
     <<BullishZoneNearTwin, BullishZoneNear, BearishZoneNearTwin, BearishZoneNear>>,
     <<BullishZoneNear, BearishZoneNear, BullishZoneNearTwin, BearishZoneNearTwin,
       BullishZoneFar>>}

StopGapLists ==
    {<<>>,
     <<BullishGapDeep, BearishGapHigh>>,
     <<BullishGapMiddle, BullishGapBelow, BullishGapDeep,
       BearishGapMiddle, BearishGapAbove, BearishGapHigh>>,
     <<BearishGapBelow, BullishGapWide, BullishGapAbove, BearishGapAt>>,
     <<BullishGapBelow, BullishGapMiddle, BearishGapAbove, BearishGapMiddle>>}

StopSnapshots ==
    {Snapshot(zones, gaps, "NONE", None, "NONE") :
        zones \in StopZoneLists, gaps \in StopGapLists}

StopAtrs == {Whole(-1), Whole(0), Whole(2), Whole(10), Whole(80)}

StopConfidences == {Whole(0), <<1, 2>>, <<19, 20>>}

\* The arguments of a direct call of score_smc_bias, at a price of 100:
\* zones far from the price, within 2% of it, with their midpoint exactly
\* 2% away and strong enough for the cap; gaps around the price; entry
\* zones that hold the price, have it on their bound or lie away from it.
BullishZoneStrong == [type |-> "BULLISH", high |-> Whole(99), low |-> Whole(98),
                      strength |-> <<1, 2>>]

BearishZoneStrong == [type |-> "BEARISH", high |-> Whole(102), low |-> Whole(101),
                      strength |-> <<1, 2>>]

BiasZoneLists ==
    {<<>>,
     <<BullishZoneFar, BearishZoneFar>>,
     <<BearishZoneNear, BullishZoneNear>>,
     <<BullishZoneNearTwin, BearishZoneFar>>,
     <<BullishZoneStrong, BearishZoneStrong>>}

BiasGapLists ==
    {<<>>, <<BullishGapBelow, BearishGapAt, BearishGapAbove>>, <<BullishGapWide>>}

OteBullish == [high |-> Whole(101), low |-> Whole(99), direction |-> <<"BULLISH">>]

OteBearishAtBound == [high |-> Whole(103), low |-> Whole(100), direction |-> <<"BEARISH">>]

OteBullishAway == [high |-> Whole(95), low |-> Whole(90), direction |-> <<"BULLISH">>]

OteZones == {None, Some(OteBullish), Some(OteBearishAtBound), Some(OteBullishAway)}

BiasSnapshots ==
    {Snapshot(zones, gaps, bos, ote, kz) :
        zones \in BiasZoneLists, gaps \in BiasGapLists, bos \in BosDirections,
        ote \in OteZones, kz \in KillZones}

BiasActions == {"LONG", "SHORT"}

----------------------------------------------------------------------------
(* The decision engine's operations.  A call is drawn with its arguments   *)
(* when the engine starts; the operation called then returns.              *)

PredictCalls ==
    {[fn |-> "predict", args |-> [request |-> request, loaded |-> loaded]] :
        request \in Requests, loaded \in BOOLEAN}

BlendCalls ==
    {[fn |-> "calculate_enhanced_confidence",
      args |-> [base_confidence |-> base, smc_modifier |-> sm, volume_modifier |-> vm]] :
        base \in BlendBases, sm \in BlendModifiers, vm \in BlendModifiers}

HoldCalls ==
    {[fn |-> "should_prefer_hold",
      args |-> [smc |-> Snapshot(<<>>, <<>>, bos, None, kz),
                volume |-> [volumeRatio |-> r], base_confidence |-> base]] :
        kz \in KillZones, bos \in BosDirections, r \in VolumeRatios, base \in HoldBases}

LevelCalls ==
    {[fn |-> "calculate_trade_levels",
      args |-> [action |-> a, current_price |-> p, smc |-> s, atr |-> atr,
                confidence |-> c]] :
        a \in LevelActions, p \in LevelPrices, s \in LevelSnapshots,
        atr \in LevelAtrs, c \in LevelConfidences}
    \cup
    {[fn |-> "calculate_trade_levels",
      args |-> [action |-> a, current_price |-> LevelPriceTiny,
                smc |-> Snapshot(<<>>, <<>>, "NONE", None, "NONE"),
                atr |-> Whole(0), confidence |-> c]] :
        a \in LevelActions, c \in LevelConfidences}
    \cup
    {[fn |-> "calculate_trade_levels",
      args |-> [action |-> a, current_price |-> Whole(100), smc |-> s, atr |-> atr,
                confidence |-> c]] :
        a \in {"LONG", "SHORT"}, s \in StopSnapshots, atr \in StopAtrs,
        c \in StopConfidences}

VolumeCalls ==
    {[fn |-> "score_volume_confirmation",
      args |-> [volume |-> [volumeRatio |-> r], base_action |-> a]] :
        r \in BandRatios, a \in BandActions}

GapCalls ==
    {[fn |-> "is_in_fvg", args |-> [fair_value_gaps |-> gaps, current_price |-> p]] :
        gaps \in GapLists, p \in GapPrices}

ZoneCalls ==
    {[fn |-> "get_nearest_order_block",
      args |-> [order_blocks |-> zones, current_price |-> p, block_type |-> ty]] :
        zones \in ZoneLists, p \in ZonePrices, ty \in ZoneTypes}

BiasCalls ==
    {[fn |-> "score_smc_bias",
      args |-> [smc |-> s, current_price |-> Whole(100), base_action |-> a]] :
        s \in BiasSnapshots, a \in BiasActions}

DecisionInit ==
    /\ called \in PredictCalls \cup BlendCalls \cup HoldCalls \cup LevelCalls
                  \cup VolumeCalls \cup GapCalls \cup ZoneCalls \cup BiasCalls
    /\ returned = None

\* predict: trainer.predict is called when a model is loaded, and
\* random.uniform when the rule-based path is taken.
Predict ==
    /\ called.fn = "predict"
    /\ returned = None
    /\ \E model \in IF called.args.loaded THEN ModelOutcomes ELSE {NotCalled} :
          \E jitter \in IF called.args.loaded
                           /\ ~ModelPathRaises(called.args.request, model)
                        THEN {NotDrawn} ELSE Jitters :
              returned' = Some(PredictResult(called.args.request, called.args.loaded,
                                             model, jitter))
    /\ UNCHANGED <<called, envVars, trainerVars>>

CallCalculateEnhancedConfidence ==
    /\ called.fn = "calculate_enhanced_confidence"
    /\ returned = None
    /\ returned' = Some(CalculateEnhancedConfidence(
                            called.args.base_confidence, called.args.smc_modifier,
                            called.args.volume_modifier, <<"s">>, <<"v">>))
    /\ UNCHANGED <<called, envVars, trainerVars>>

CallShouldPreferHold ==
    /\ called.fn = "should_prefer_hold"
    /\ returned = None
    /\ returned' = Some(ShouldPreferHold(called.args.smc, called.args.volume,
                                         called.args.base_confidence))
    /\ UNCHANGED <<called, envVars, trainerVars>>

CallCalculateTradeLevels ==
    /\ called.fn = "calculate_trade_levels"
    /\ returned = None
    /\ returned' = Some(CalculateTradeLevels(called.args.action, called.args.current_price,
                                             called.args.smc, called.args.atr,
                                             called.args.confidence))
    /\ UNCHANGED <<called, envVars, trainerVars>>

CallScoreVolumeConfirmation ==
    /\ called.fn = "score_volume_confirmation"
    /\ returned = None
    /\ returned' = Some(ScoreVolumeConfirmation(called.args.volume,
                                                called.args.base_action))
    /\ UNCHANGED <<called, envVars, trainerVars>>

CallIsInFvg ==
    /\ called.fn = "is_in_fvg"
    /\ returned = None
    /\ returned' = Some(IsInFvg(called.args.fair_value_gaps, called.args.current_price))
    /\ UNCHANGED <<called, envVars, trainerVars>>

CallGetNearestOrderBlock ==
    /\ called.fn = "get_nearest_order_block"
    /\ returned = None
    /\ returned' = Some(GetNearestOrderBlock(called.args.order_blocks,
                                             called.args.current_price,
                                             called.args.block_type))
    /\ UNCHANGED <<called, envVars, trainerVars>>

CallScoreSmcBias ==
    /\ called.fn = "score_smc_bias"
    /\ returned = None
    /\ returned' = Some(ScoreSmcBias(called.args.smc, called.args.current_price,
                                     called.args.base_action))
    /\ UNCHANGED <<called, envVars, trainerVars>>

\* The decision engine while the environment is checked: no call.
DecisionIdle ==
    /\ called = [fn |-> "none", args |-> <<>>]
    /\ returned = None

DecisionNext ==
    \/ Predict
    \/ CallCalculateEnhancedConfidence
    \/ CallShouldPreferHold
    \/ CallCalculateTradeLevels
    \/ CallScoreVolumeConfirmation
    \/ CallIsInFvg
    \/ CallGetNearestOrderBlock
    \/ CallScoreSmcBias

\* The environment while the decision engine is checked: no series.
EnvIdle ==
    /\ data = <<>>
    /\ current_step = 0
    /\ balance = initial_balance
    /\ position = 0
    /\ entry_price = 0
    /\ total_pnl = 0
    /\ trades = <<>>
    /\ ret = [obs |-> <<>>, reward |-> <<0, 1>>, terminated |-> FALSE,
              truncated |-> FALSE, info |-> NoInfo]
    /\ lastOp = "none"
    /\ actions = <<>>
    /\ cleared = 0

----------------------------------------------------------------------------
(* trainer.py: RLTrainer.train, and its caller create_model of main.py.   *)
(* A raw row of the historical data is "ok" when all five of its columns  *)
(* are numeric and "nan" when pd.to_numeric coerces one of them to NaN.   *)
(* The time of a call is "now".  What the reinforcement-learning library  *)
(* does is an outcome of the call: "ok", or the stage that raises.        *)

\* Line 183: the fewest usable rows train accepts.
MinTrainingRows == 100

\* RL_AVAILABLE (lines 27-34).  When the import of stable_baselines3 fails,
\* BaseCallback is unbound and the class statement of line 58 raises
\* NameError, so the module, and with it RLTrainer, only exists where
\* RL_AVAILABLE is True.
RL_AVAILABLE == TRUE

\* _prepare_data (lines 123-143): the rows dropna keeps.
PrepareData(raw_data) == SelectSeq(raw_data, LAMBDA row : row = "ok")

\* raw_data[0] of an empty list raises IndexError (line 126).
PrepareDataRaises(raw_data) == raw_data = <<>>

Failure(error) == [success |-> FALSE, error |-> error]

\* Lines 239-246: the result of a training that completed.
Success(model_id, total_timesteps) ==
    [success |-> TRUE, model_id |-> model_id,
     message |-> <<"Training completed: ", total_timesteps, " timesteps.">>]

\* The model id of line 220.
NewModelId(symbol) == <<"ppo-", symbol, "-", "now">>

\* Mutant: train accepts a series of any length.
TrainBodyNoMinimum(t, raw_data, symbol, total_timesteps, outcome) ==
    IF PrepareDataRaises(raw_data)
    THEN [trainer |-> t, result |-> Failure(<<"list index out of range">>)]
    ELSE [trainer |-> [t EXCEPT !.model = "PPO", !.model_id = Some(NewModelId(symbol)),
                                !.last_trained = Some("now")],
          result |-> Success(NewModelId(symbol), total_timesteps)]

\* Lines 178-246, the body of the try statement: the trainer's fields and
\* the result when it is left.
TrainBody(t, raw_data, symbol, total_timesteps, outcome) ==
    IF PrepareDataRaises(raw_data)
    THEN [trainer |-> t, result |-> Failure(<<"list index out of range">>)]
    ELSE IF Len(PrepareData(raw_data)) < MinTrainingRows
    THEN [trainer |-> t,
          result |-> Failure(<<"Insufficient data: ", Len(PrepareData(raw_data)),
                               " rows (need 100+)">>)]
    ELSE IF outcome = "build_raises"
    THEN [trainer |-> t, result |-> Failure(<<"build">>)]
    ELSE IF outcome = "learn_raises"
    THEN [trainer |-> [t EXCEPT !.model = "PPO"], result |-> Failure(<<"learn">>)]
    ELSE IF outcome = "save_raises"
    THEN [trainer |-> [t EXCEPT !.model = "PPO", !.model_id = Some(NewModelId(symbol))],
          result |-> Failure(<<"save">>)]
    ELSE [trainer |-> [t EXCEPT !.model = "PPO", !.model_id = Some(NewModelId(symbol)),
                                !.last_trained = Some("now")],
          result |-> Success(NewModelId(symbol), total_timesteps)]

\* RLTrainer.train (lines 145-256): the mock training, or the try statement
\* and its finally clause.
Train(t, raw_data, symbol, total_timesteps, outcome) ==
    IF ~RL_AVAILABLE
    THEN [trainer |-> [t EXCEPT !.model_id = Some(<<"mock-", symbol, "-", "now">>),
                                !.last_trained = Some("now")],
          result |-> [success |-> TRUE, model_id |-> <<"mock-", symbol, "-", "now">>,
                      message |-> <<"Mock training (stable-baselines3 not installed)">>]]
    ELSE LET body == TrainBody([t EXCEPT !.is_training = TRUE,
                                         !.progress = [current_step |-> 0, progress |-> 0]],
                               raw_data, symbol, total_timesteps, outcome)
         IN  [trainer |-> [body.trainer EXCEPT
                               !.is_training = FALSE,
                               !.progress = [current_step |-> total_timesteps,
                                             progress |-> 1]],
              result |-> body.result]

\* create_model (lines 594-629, with a trainer): the response and rl_state.
CreateModel(state, trained) ==
    IF trained.result.success
    THEN [rl_state |-> [state EXCEPT !.model_loaded = TRUE,
                                     !.model_id = trained.result.model_id,
                                     !.training_status = "completed"],
          response |-> [status |-> 200, modelId |-> trained.result.model_id,
                        state |-> "completed"]]
    ELSE [rl_state |-> state,
          response |-> [status |-> 500, detail |-> trained.result.error]]

\* The inputs of the trainer: series around the minimum length, with and
\* without rows that dropna removes.
TrainLengths == {0, 1, MinTrainingRows - 1, MinTrainingRows, MinTrainingRows + 1}

NanRows == {{}, {1}, {1, 2}}

TrainSeries == {[i \in 1 .. n |-> IF i \in nan THEN "nan" ELSE "ok"] : n \in TrainLengths, nan \in NanRows}

TrainSymbols == {"btcusdt", "ethusdt"}

TrainTimesteps == {50000}

TrainOutcomes == {"ok", "build_raises", "learn_raises", "save_raises"}

\* What the library is asked to do for a series: nothing when it is refused.
OutcomesFor(raw_data) ==
    IF Len(PrepareData(raw_data)) < MinTrainingRows THEN {"ok"} ELSE TrainOutcomes

\* RLTrainer.__init__ (lines 83-91): no model, or the latest saved one.
TrainerStates ==
    {[model |-> "none", model_id |-> None, last_trained |-> None, is_training |-> FALSE,
      progress |-> [current_step |-> 0, progress |-> 0]],
     [model |-> "saved", model_id |-> Some(<<"saved">>), last_trained |-> Some("mtime"),
      is_training |-> FALSE, progress |-> [current_step |-> 0, progress |-> 0]]}

\* RLState.__init__ (main.py lines 120-125).
RlStateInit ==
    [model_loaded |-> TRUE, model_id |-> <<"smc-ppo-v1">>, training_status |-> "idle"]

TrainerInit ==
    /\ trainer \in TrainerStates
    /\ rl_state = RlStateInit

\* A direct call of trainer.train.
CallTrain ==
    \E raw_data \in TrainSeries, symbol \in TrainSymbols, total_timesteps \in TrainTimesteps :
        \E outcome \in OutcomesFor(raw_data) :
            LET trained == Train(trainer, raw_data, symbol, total_timesteps, outcome)
            IN  /\ called' = [fn |-> "train",
                              args |-> [data |-> raw_data, symbol |-> symbol,
                                        total_timesteps |-> total_timesteps]]
                /\ returned' = Some(trained.result)
                /\ trainer' = trained.trainer
                /\ UNCHANGED <<rl_state, envVars>>

\* A request to /model/create.
CallCreateModel ==
    \E raw_data \in TrainSeries, symbol \in TrainSymbols :
        \E outcome \in OutcomesFor(raw_data) :
            LET trained == Train(trainer, raw_data, symbol, 50000, outcome)
                created == CreateModel(rl_state, trained)
            IN  /\ called' = [fn |-> "create_model",
                              args |-> [data |-> raw_data, symbol |-> symbol]]
                /\ returned' = Some(created.response)
                /\ trainer' = trained.trainer
                /\ rl_state' = created.rl_state
                /\ UNCHANGED envVars

TrainerNext == CallTrain \/ CallCreateModel

\* The trainer while the environment or the decision engine is checked.
TrainerIdle ==
    /\ trainer = [model |-> "none", model_id |-> None, last_trained |-> None,
                  is_training |-> FALSE, progress |-> [current_step |-> 0, progress |-> 0]]
    /\ rl_state = RlStateInit

\* The environment, driven by its callers.
Init == EnvInit /\ DecisionIdle /\ TrainerIdle

Spec == Init /\ [][EnvNext]_vars

\* The decision engine, called by the serving layer.
InitDecision == DecisionInit /\ EnvIdle /\ TrainerIdle

SpecDecision == InitDecision /\ [][DecisionNext]_vars

\* RLTrainer._evaluate_model (trainer.py lines 331-341): one reset, then
\* steps while the episode has not terminated.
EvaluateReset == lastOp = "init" /\ Reset

EvaluateNext == EvaluateReset \/ StepAny

\* The control of the loop: the reset before it, then one more step while
\* the episode is not done.  Every EvaluateNext step is one of these, and
\* one of these can be taken exactly where EvaluateNext can.
EvaluateIteration ==
    \/ /\ lastOp = "init"
       /\ lastOp' = "reset"
       /\ actions' = <<>>
    \/ /\ lastOp # "init"
       /\ ~ret.terminated
       /\ lastOp' = "step"
       /\ \E action \in {0, 1, 2} : actions' = Append(actions, action)

\* The loop runs on until done: each of its iterations is taken.
SpecEvaluate ==
    Init /\ [][EvaluateNext]_vars /\ WF_<<lastOp, actions>>(EvaluateIteration)

\* The trainer, called by the serving layer.
InitTrainer == TrainerInit /\ DecisionIdle /\ EnvIdle

SpecTrainer == InitTrainer /\ [][TrainerNext]_vars

----------------------------------------------------------------------------
(* Properties of the environment. *)

LastAction == actions[Len(actions)]

\* The fields of the simulation state a step's position change can write.
TradeFields == <<position, entry_price, balance, total_pnl, trades>>

\* The rows of the first two steps of an episode.
Price1 == Close(lookback_window)

Price2 == Close(lookback_window + 1)

\* C1: in every state reachable from reset() by step(action), action in
\* {0, 1, 2}, the position is one of -1, 0, 1.
C1_PositionInRange == position \in {-1, 0, 1}

C1_Witness ==
    /\ lastOp = "step"
    /\ Len(actions) >= 3
    /\ position = -1

\* C2: step(Hold) flattens: afterwards the position is 0; an open position
\* is closed with exactly one trade record appended and the realized P&L
\* changed by the signed price move times the position size minus the
\* transaction cost of the current price; a flat position leaves position,
\* entry price, balance, realized P&L and trade log unchanged.
C2_HoldFlattens ==
    [][(lastOp' = "step" /\ actions'[Len(actions')] = 0) =>
         /\ position' = 0
         /\ position # 0 =>
              /\ Len(trades') = Len(trades) + 1
              /\ SubSeq(trades', 1, Len(trades)) = trades
              /\ total_pnl' - total_pnl =
                   position * (Close(current_step) - entry_price) * max_position_size
                   - Close(current_step) \div Unit
         /\ position = 0 => UNCHANGED TradeFields]_envVars

C2_Witness ==
    /\ lastOp = "step"
    /\ Len(actions) >= 2
    /\ LastAction = 0
    /\ actions[Len(actions) - 1] = 2
    /\ position = 0
    /\ Len(trades) >= 1
    /\ total_pnl > 0

\* C3: a directional action d, judged against the position held before the
\* step: an open opposite position is closed first (P&L realized, the close
\* cost of the current price deducted, one trade record appended); then, if
\* the position is not already d, the position becomes d, the entry price
\* the current price and the entry cost is deducted from the balance; if
\* the position is already d nothing of the trade state changes.
C3_DirectionalAction ==
    [][(lastOp' = "step" /\ actions'[Len(actions')] \in {1, 2}) =>
         LET dir == IF actions'[Len(actions')] = 1 THEN 1 ELSE -1
             current_price == Close(current_step)
             cost == current_price \div Unit
             pnl == position * (current_price - entry_price) * max_position_size
         IN  /\ position = -dir =>
                  /\ total_pnl' = total_pnl + pnl - cost
                  /\ trades' = Append(trades,
                        [type |-> IF dir = 1 THEN "close_short" ELSE "close_long",
                         price |-> current_price, pnl |-> pnl])
             /\ position # -dir => UNCHANGED <<total_pnl, trades>>
             /\ position # dir =>
                  /\ position' = dir
                  /\ entry_price' = current_price
                  /\ balance' = balance - cost
             /\ position = dir => UNCHANGED TradeFields]_envVars

C3_Witness ==
    /\ lastOp = "step"
    /\ Len(actions) >= 2
    /\ LastAction = 2
    /\ actions[Len(actions) - 1] = 1
    /\ position = -1
    /\ Len(trades) >= 1
    /\ trades[Len(trades)].type = "close_long"

\* C4: after any sequence of steps reset() restores the initial episode
\* state (stepIndex = lookbackWindow, balance = initialBalance, position 0,
\* entryPrice 0, realized P&L 0, empty trade log) and returns the
\* observation of the row at stepIndex.
C4_ResetRestores ==
    lastOp = "reset" =>
        /\ current_step = lookback_window
        /\ balance = initial_balance
        /\ position = 0
        /\ entry_price = 0
        /\ total_pnl = 0
        /\ trades = <<>>
        /\ ret.obs = GetObservation(current_step, 0, 0)
        /\ ret.obs.row = lookback_window

C4_Witness ==
    /\ lastOp = "reset"
    /\ cleared >= 2

\* C5: within an episode the trade log only grows: a step keeps the
\* existing records as a prefix and appends zero or more; only reset()
\* shortens the log, and it empties it.
C5_TradeLogGrows ==
    [][/\ lastOp' = "step" =>
            /\ Len(trades') >= Len(trades)
            /\ SubSeq(trades', 1, Len(trades)) = trades
       /\ Len(trades') < Len(trades) => lastOp' = "reset"
       /\ lastOp' = "reset" => trades' = <<>>]_envVars

C5_Witness ==
    /\ lastOp = "step"
    /\ Len(trades) >= 2

\* C6: an episode starts with balance = initialBalance (10000) and position
\* 0, and as long as every action of the episode is Hold, whatever the
\* prices, the trade log is empty, the realized P&L is 0, the position is 0
\* and the balance is the initial balance.
C6_HoldOnlyEpisode ==
    /\ lastOp = "reset" => balance = 10000 * Unit /\ position = 0
    /\ (lastOp = "step" /\ \A i \in 1 .. Len(actions) : actions[i] = 0) =>
           /\ trades = <<>>
           /\ total_pnl = 0
           /\ position = 0
           /\ balance = 10000 * Unit

C6_Witness ==
    /\ lastOp = "step"
    /\ ret.terminated
    /\ Len(actions) >= 3
    /\ \A i \in 1 .. Len(actions) : actions[i] = 0
    /\ \E i, j \in lookback_window .. SeriesLength - 1 : Close(i) # Close(j)

\* The episodes of scenario 4: the first action Long, then Hold, over
\* closes that rise from the first step's row to the second's.
LongHoldRising ==
    /\ lastOp = "step"
    /\ Len(actions) >= 2
    /\ actions[1] = 1
    /\ actions[2] = 0
    /\ Price1 < Price2

\* C7 as stated: with actions [Long, Hold, Hold] over rising closes, the
\* Hold realizes a positive P&L equal to (price2 - price1) minus costs.
C7_AsStated ==
    (LongHoldRising /\ (Len(actions) = 2 \/ actions = <<1, 0, 0>>)) =>
        /\ Len(trades) = 1
        /\ total_pnl = (Price2 - Price1) * max_position_size - Price2 \div Unit
        /\ total_pnl > 0

\* C7, amended: with actions [Long, Hold, Hold] over closes price1 < price2,
\* the first step opens a Long at price1 and pays the entry cost from the
\* balance; the Hold closes it with one trade record whose pnl is
\* price2 - price1 > 0, and the realized P&L becomes that pnl minus the close
\* cost of price2, which is positive exactly when the rise exceeds that
\* cost; the log has one record then and still after the third step.
C7_LongHoldHold ==
    /\ (lastOp = "step" /\ actions = <<1>>) =>
           /\ position = 1
           /\ entry_price = Price1
           /\ balance = initial_balance - Price1 \div Unit
           /\ trades = <<>>
           /\ total_pnl = 0
    /\ (LongHoldRising /\ (Len(actions) = 2 \/ actions = <<1, 0, 0>>)) =>
           /\ position = 0
           /\ Len(trades) = 1
           /\ trades[1] = [type |-> "close_long", price |-> Price2,
                           pnl |-> (Price2 - Price1) * max_position_size]
           /\ trades[1].pnl > 0
           /\ total_pnl = trades[1].pnl - Price2 \div Unit
           /\ total_pnl > 0 <=> Price2 - Price1 > Price2 \div Unit
           /\ balance = initial_balance - Price1 \div Unit

C7_Witness ==
    /\ LongHoldRising
    /\ actions = <<1, 0, 0>>
    /\ Len(trades) = 1
    /\ total_pnl > 0

----------------------------------------------------------------------------
(* Properties of the decision engine. *)

Returned(fn) == called.fn = fn /\ returned # None

Clamp(x, lo, hi) == IF FracLt(x, lo) THEN lo ELSE IF FracLt(hi, x) THEN hi ELSE x

InConfidenceRange(c) == FracLe(<<1, 5>>, c) /\ FracLe(c, <<19, 20>>)

\* base x biasModifier x volumeModifier of a direct call of the blend.
BlendRaw ==
    FracMul(FracMul(called.args.base_confidence, called.args.smc_modifier),
            called.args.volume_modifier)

\* C8: blend returns clamp(base x biasModifier x volumeModifier, 0.2, 0.95),
\* to the 4 decimal places it is rounded to, which lies in [0.2, 0.95] for
\* every base confidence and however extreme the modifiers are; the blended
\* and the final confidence of the rule-based decision lie in that range.
C8_ClampInvariant ==
    /\ Returned("calculate_enhanced_confidence") =>
           /\ returned[1][1] = Round(Clamp(BlendRaw, <<1, 5>>, <<19, 20>>), 4)
           /\ InConfidenceRange(returned[1][1])
    /\ (Returned("predict") /\ returned[1].trace.path = "rules") =>
           /\ InConfidenceRange(returned[1].trace.blended)
           /\ InConfidenceRange(returned[1].response.confidence)

C8_Witness ==
    /\ Returned("calculate_enhanced_confidence")
    /\ called.args.smc_modifier = <<100, 1>>
    /\ called.args.volume_modifier = <<100, 1>>
    /\ called.args.base_confidence = <<3, 4>>
    /\ returned[1][1] = <<19, 20>>

\* Rule (a) of the hold override: no active session and volume ratio < 0.5.
HoldRuleA ==
    /\ called.args.smc.killZone = "NONE"
    /\ FracLt(called.args.volume.volumeRatio, <<1, 2>>)

\* Rule (b): base confidence < 0.55 and the structure direction is set.
HoldRuleB ==
    /\ FracLt(called.args.base_confidence, <<11, 20>>)
    /\ called.args.smc.bosDirection # "NONE"

\* C9: shouldOverrideToFlat returns true exactly when rule (a) or rule (b)
\* holds; rule (a) needs both of its conditions; the first matching rule
\* supplies the reason; otherwise the result is (false, empty reason).
C9_HoldOverrideRules ==
    Returned("should_prefer_hold") =>
        /\ returned[1][1] = (HoldRuleA \/ HoldRuleB)
        /\ HoldRuleA => returned[1][2] = "Outside kill zone with very low volume"
        /\ (~HoldRuleA /\ HoldRuleB) =>
               returned[1][2] = "Weak signal against market structure"
        /\ ~(HoldRuleA \/ HoldRuleB) => returned[1] = <<FALSE, "">>

C9_Witness ==
    /\ Returned("should_prefer_hold")
    /\ HoldRuleA
    /\ HoldRuleB
    /\ returned[1] = <<TRUE, "Outside kill zone with very low volume">>

\* C10: a response whose action is HOLD has none of the four trade-level
\* fields, on the learned-model path, on the rule-based path and when the
\* hold override turned a Long/Short proposal into HOLD.
C10_HoldHasNoLevels ==
    (Returned("predict") /\ returned[1].response.action = "HOLD") =>
        /\ returned[1].response.entry = None
        /\ returned[1].response.stopLoss = None
        /\ returned[1].response.takeProfit = None
        /\ returned[1].response.riskRewardRatio = None

C10_Witness ==
    /\ Returned("predict")
    /\ returned[1].trace.path = "rules"
    /\ returned[1].trace.should_hold
    /\ returned[1].trace.proposal = "LONG"
    /\ returned[1].response.action = "HOLD"
    /\ called.args.request.smc # None
    /\ called.args.request.smc[1].orderBlocks # <<>>
    /\ returned[1].response.entry = None

\* The stop, the risk and the target calculate_trade_levels computes for a
\* direct call with a direction and a positive price.
LevelStop ==
    IF called.args.action = "LONG"
    THEN LongStop(called.args.current_price, called.args.smc,
                  EffectiveAtr(called.args.atr, called.args.current_price))
    ELSE ShortStop(called.args.current_price, called.args.smc,
                   EffectiveAtr(called.args.atr, called.args.current_price))

LevelRisk == FracAbs(FracSub(called.args.current_price, LevelStop))

LevelTarget ==
    TakeProfit(called.args.action, called.args.current_price, LevelStop,
               called.args.confidence)

LevelKeys == {"entry", "stopLoss", "takeProfit", "riskRewardRatio"}

\* C11: calculate_trade_levels never returns a negative risk/reward ratio,
\* and when the computed risk (the distance between entry and stop) is zero
\* the ratio returned is 0.
C11_RatioNeverNegative ==
    (Returned("calculate_trade_levels") /\ returned[1] # NoLevels) =>
        /\ DOMAIN returned[1] = LevelKeys
        /\ FracLe(Whole(0), returned[1].riskRewardRatio)
        /\ LevelRisk = Whole(0) => returned[1].riskRewardRatio = Whole(0)

C11_Witness ==
    /\ Returned("calculate_trade_levels")
    /\ returned[1] # NoLevels
    /\ called.args.action = "SHORT"
    /\ LevelRisk = Whole(0)
    /\ returned[1].riskRewardRatio = Whole(0)

\* The cases in which calculate_trade_levels is to return empty levels.
LevelsRejected ==
    \/ called.args.action = "HOLD"
    \/ FracLe(called.args.current_price, Whole(0))
    \/ FracLe(LevelStop, Whole(0))
    \/ FracLe(LevelTarget, Whole(0))

\* C12: calculate_trade_levels returns empty levels whenever the direction
\* is Flat, the price is <= 0, the computed stop is <= 0 or the computed
\* target is <= 0; in every other case it returns levels whose entry,
\* stopLoss and takeProfit are all positive.
C12_AsStated ==
    Returned("calculate_trade_levels") =>
        /\ LevelsRejected => returned[1] = NoLevels
        /\ ~LevelsRejected =>
               /\ DOMAIN returned[1] = LevelKeys
               /\ FracLt(Whole(0), returned[1].entry)
               /\ FracLt(Whole(0), returned[1].stopLoss)
               /\ FracLt(Whole(0), returned[1].takeProfit)

\* The band of a volume ratio, closed on its lower bound.
VolumeBand(ratio) ==
    IF FracLe(Whole(2), ratio) THEN <<5, 4>>
    ELSE IF FracLe(<<3, 2>>, ratio) /\ FracLt(ratio, Whole(2)) THEN <<23, 20>>
    ELSE IF FracLe(<<4, 5>>, ratio) /\ FracLt(ratio, <<3, 2>>) THEN <<1, 1>>
    ELSE IF FracLe(<<1, 2>>, ratio) /\ FracLt(ratio, <<4, 5>>) THEN <<17, 20>>
    ELSE <<7, 10>>

\* C13: the volume modifier is a step function of volumeRatio with bands
\* closed on their lower bound (>= 2.0: 1.25, [1.5, 2.0): 1.15, [0.8, 1.5):
\* 1.0, the Normal band, [0.5, 0.8): 0.85, < 0.5: 0.7), whatever the
\* proposed direction; a ratio of 2.5 gives 1.25 and a rationale with
\* "2.5x avg".
C13_VolumeBands ==
    Returned("score_volume_confirmation") =>
        /\ returned[1][1] = VolumeBand(called.args.volume.volumeRatio)
        /\ called.args.volume.volumeRatio = <<4, 5>> =>
               returned[1][2][1] = "Normal volume "
        /\ called.args.volume.volumeRatio = <<5, 2>> =>
               /\ returned[1][1] = <<5, 4>>
               /\ SubSeq(returned[1][2], 3, 4) = <<<<5, 2>>, "x avg)">>

C13_Witness ==
    /\ Returned("score_volume_confirmation")
    /\ called.args.volume.volumeRatio = <<4, 5>>
    /\ called.args.base_action = "SHORT"
    /\ returned[1] = <<<<1, 1>>, <<"Normal volume ", "(", <<4, 5>>, "x avg)">>>>

\* The price of a direct call lies in the gap, both bounds included.
GapHolds(fvg) ==
    /\ FracLe(fvg.low, called.args.current_price)
    /\ FracLe(called.args.current_price, fvg.high)

\* C14: gapContaining returns the first gap, in input order, whose interval
\* contains the price, both bounds included, for unsorted and overlapping
\* gaps alike, and none when no gap contains the price.
C14_FirstGapContaining ==
    Returned("is_in_fvg") =>
        LET gaps == called.args.fair_value_gaps
            hits == {i \in 1 .. Len(gaps) : GapHolds(gaps[i])}
        IN  /\ hits = {} => returned[1] = None
            /\ hits # {} =>
                   \E i \in hits : /\ \A j \in hits : i <= j
                                   /\ returned[1] = Some(gaps[i])

C14_Witness ==
    /\ Returned("is_in_fvg")
    /\ called.args.fair_value_gaps = <<BearishGapAt, BullishGapWide, BullishGapBelow>>
    /\ called.args.current_price = BearishGapAt.high
    /\ GapHolds(BullishGapWide)
    /\ returned[1] = Some(BearishGapAt)

\* The zones of a direct call that nearestZone keeps: of the requested
\* direction and strictly below (Bullish, by high) or strictly above
\* (Bearish, by low) the price.
ZoneKept ==
    {i \in 1 .. Len(called.args.order_blocks) :
        LET ob == called.args.order_blocks[i]
        IN  /\ ob.type = called.args.block_type
            /\ IF called.args.block_type = "BULLISH"
               THEN FracLt(ob.high, called.args.current_price)
               ELSE FracLt(called.args.current_price, ob.low)}

\* Zone i is at least as near as zone j, and first among equals.
ZoneBeats(i, j) ==
    LET a == called.args.order_blocks[i]
        b == called.args.order_blocks[j]
    IN  IF called.args.block_type = "BULLISH"
        THEN FracLt(b.high, a.high) \/ (b.high = a.high /\ i <= j)
        ELSE FracLt(a.low, b.low) \/ (b.low = a.low /\ i <= j)

\* C15: nearestZone considers only zones of the requested direction; for
\* Bullish it returns the zone of greatest high among those with high
\* strictly below the price, for Bearish the zone of smallest low among
\* those with low strictly above the price, the first in input order among
\* equals, and none when no zone is kept.
C15_NearestZone ==
    Returned("get_nearest_order_block") =>
        /\ ZoneKept = {} => returned[1] = None
        /\ ZoneKept # {} =>
               \E i \in ZoneKept :
                   /\ \A j \in ZoneKept : ZoneBeats(i, j)
                   /\ returned[1] = Some(called.args.order_blocks[i])

C15_Witness ==
    /\ Returned("get_nearest_order_block")
    /\ called.args.order_blocks =
           <<BullishZoneNearTwin, BullishZoneNear, BearishZoneNearTwin, BearishZoneNear>>
    /\ called.args.block_type = "BEARISH"
    /\ called.args.current_price = Whole(100)
    /\ returned[1] = Some(BearishZoneNearTwin)

\* The five adjustments of a direct call of score_smc_bias, each None when
\* its rule does not trigger.
BiasLong == called.args.base_action = "LONG"

BosAdjustment ==
    LET bos == called.args.smc.bosDirection
    IN  IF (bos = "BULLISH" /\ BiasLong) \/ (bos = "BEARISH" /\ ~BiasLong)
        THEN Some(<<3, 20>>)
        ELSE IF bos # "NONE" THEN Some(<<-1, 5>>)
        ELSE None

ZoneAdjustment ==
    LET zone == GetNearestOrderBlock(called.args.smc.orderBlocks, called.args.current_price,
                                     IF BiasLong THEN "BULLISH" ELSE "BEARISH")
        price == called.args.current_price
    IN  IF zone = None THEN None
        ELSE IF FracLt(FracAbs(FracSub(FracMul(price, Whole(2)),
                                       FracAdd(zone[1].high, zone[1].low))),
                       FracMul(price, <<1, 25>>))
        THEN Some(FracMin(FracMul(zone[1].strength, Whole(5)), <<1, 5>>))
        ELSE None

GapAdjustment ==
    LET gap == IsInFvg(called.args.smc.fairValueGaps, called.args.current_price)
    IN  IF gap = None THEN None
        ELSE IF gap[1].type = (IF BiasLong THEN "BULLISH" ELSE "BEARISH")
        THEN Some(<<1, 10>>)
        ELSE Some(<<-1, 10>>)

OteAdjustment ==
    LET ote == called.args.smc.oteZone
    IN  IF ote = None THEN None
        ELSE IF /\ FracLe(ote[1].low, called.args.current_price)
                /\ FracLe(called.args.current_price, ote[1].high)
                /\ Contains(ote[1].direction, IF BiasLong THEN "BULLISH" ELSE "BEARISH")
        THEN Some(<<3, 20>>)
        ELSE None

SessionAdjustment ==
    IF called.args.smc.killZone \in {"LONDON", "NEW_YORK"} THEN Some(<<1, 10>>)
    ELSE IF called.args.smc.killZone = "ASIAN" THEN Some(<<1, 20>>)
    ELSE None

BiasAdjustments ==
    <<BosAdjustment, ZoneAdjustment, GapAdjustment, OteAdjustment, SessionAdjustment>>

Amount(adjustment) == IF adjustment = None THEN Whole(0) ELSE adjustment[1]

\* C17: for a price > 0 and a direction Long or Short the bias modifier is
\* 1.0 plus the sum of the five adjustments: break of structure (+0.15
\* agreeing, -0.20 set and opposite), zone proximity (+min(strength x 5,
\* 0.2) when the nearest same-direction zone's midpoint is less than 2% of
\* the price away), gap occupancy (+0.10 matching, -0.10 otherwise),
\* optimal-entry zone (+0.15 inside [low, high] with a consistent tag) and
\* session (+0.10 London/NewYork, +0.05 Asian).
C17_BiasModifier ==
    Returned("score_smc_bias") =>
        returned[1][1] =
            FracAdd(Whole(1),
                FracAdd(Amount(BosAdjustment),
                    FracAdd(Amount(ZoneAdjustment),
                        FracAdd(Amount(GapAdjustment),
                            FracAdd(Amount(OteAdjustment), Amount(SessionAdjustment))))))

C17_Witness ==
    /\ Returned("score_smc_bias")
    /\ BosAdjustment = Some(<<-1, 5>>)
    /\ ZoneAdjustment = Some(<<1, 5>>)
    /\ GapAdjustment = Some(<<-1, 10>>)
    /\ OteAdjustment = Some(<<3, 20>>)
    /\ SessionAdjustment = Some(<<1, 20>>)
    /\ returned[1][1] = <<11, 10>>

\* The rule a reason of the bias rationale describes, 1 .. 5 in the order
\* break of structure, zone proximity, gap occupancy, optimal-entry zone,
\* session; 0 for any other text.
RuleOfReason(reason) ==
    IF reason[1] \in {"BOS confirms bullish bias", "BOS confirms bearish bias",
                      "BOS conflicts (market "} THEN 1
    ELSE IF reason[1] = "Near " THEN 2
    ELSE IF reason[1] \in {"In ", "In opposing FVG ("} THEN 3
    ELSE IF reason[1] \in {"In OTE zone for long entry", "In OTE zone for short entry"}
    THEN 4
    ELSE IF reason[1] = "Asian session (range likely)"
            \/ (Len(reason) = 2 /\ reason[2] = " kill zone active") THEN 5
    ELSE 0

\* The rules that triggered in a direct call of score_smc_bias.
RulesTriggered == {k \in 1 .. 5 : BiasAdjustments[k] # None}

\* C18: the bias rationale is the descriptions of exactly the rules that
\* triggered, joined by "; ", in the order break of structure, zone
\* proximity, gap occupancy, optimal-entry zone, session; it is "No SMC
\* signals" exactly when no rule triggered.
C18_RationaleOrder ==
    Returned("score_smc_bias") =>
        LET text == returned[1][2]
            count == Cardinality(RulesTriggered)
        IN  /\ (text = <<<<"No SMC signals">>>>) <=> (RulesTriggered = {})
            /\ RulesTriggered # {} =>
                   /\ Len(text) = 2 * count - 1
                   /\ \A k \in 1 .. count - 1 : text[2 * k] = <<"; ">>
                   /\ {RuleOfReason(text[2 * k - 1]) : k \in 1 .. count} = RulesTriggered
                   /\ \A k \in 1 .. count - 1 :
                          RuleOfReason(text[2 * k - 1]) < RuleOfReason(text[2 * k + 1])

C18_Witness ==
    /\ Returned("score_smc_bias")
    /\ RulesTriggered = {1, 3, 5}
    /\ returned[1][2] = <<<<"BOS confirms bullish bias">>, <<"; ">>,
                          <<"In opposing FVG (", "BEARISH", ")">>, <<"; ">>,
                          <<"NEW_YORK", " kill zone active">>>>

\* C19: after every step the returned info reflects the state after the
\* transition: total_pnl is the cumulative realized P&L, position the
\* current position, trades the length of the trade log and balance the
\* equity balance plus the cumulative realized P&L; info has exactly these
\* four keys.
C19_InfoAfterStep ==
    lastOp = "step" =>
        /\ DOMAIN ret.info = {"total_pnl", "position", "trades", "balance"}
        /\ ret.info.total_pnl = total_pnl
        /\ ret.info.position = position
        /\ ret.info.trades = Len(trades)
        /\ ret.info.balance = balance + total_pnl

C19_Witness ==
    /\ lastOp = "step"
    /\ Len(trades) >= 2
    /\ position # 0
    /\ total_pnl # 0
    /\ ret.info = [total_pnl |-> total_pnl, position |-> position, trades |-> Len(trades),
                   balance |-> balance + total_pnl]

\* C20: every step advances stepIndex by exactly 1 (after k steps of an
\* episode it is lookback_window + k), the terminated flag it returns is
\* true if and only if the advanced stepIndex is >= seriesLength - 1, and
\* truncated is always false.
C20_StepAdvances ==
    /\ lastOp # "init" => current_step = lookback_window + Len(actions)
    /\ lastOp = "step" => (ret.terminated <=> current_step >= SeriesLength - 1)
    /\ ret.truncated = FALSE

C20_Witness ==
    /\ lastOp = "step"
    /\ Len(actions) >= 2
    /\ current_step = SeriesLength - 1
    /\ ret.terminated
    /\ ~ret.truncated

\* The request, the response and the handler's locals of a returned call of
\* predict.
PredictRequest == called.args.request

PredictResponse == returned[1].response

PredictTrace == returned[1].trace

RulesReturned == Returned("predict") /\ PredictTrace.path = "rules"

\* C21: in the rule-based pipeline a missing snapshot degrades to neutral
\* instead of failing: without a structural snapshot the bias modifier is
\* exactly 1.0 with rationale "No SMC data", without a volume snapshot the
\* volume modifier is exactly 1.0 with rationale "No volume data", the hold
\* override is not evaluated, and a decision is still returned.
C21_MissingSnapshotNeutral ==
    RulesReturned =>
        /\ PredictRequest.smc = None =>
               /\ PredictTrace.smc_modifier = Whole(1)
               /\ PredictResponse.smcAnalysis = <<"No SMC data">>
        /\ PredictRequest.volume = None =>
               /\ PredictTrace.volume_modifier = Whole(1)
               /\ PredictResponse.volumeAnalysis = <<"No volume data">>
        /\ (PredictRequest.smc = None \/ PredictRequest.volume = None) =>
               /\ ~PredictTrace.should_hold
               /\ PredictResponse.action = PredictTrace.proposal
               /\ PredictResponse.action \in {"LONG", "SHORT", "HOLD"}
               /\ InConfidenceRange(PredictResponse.confidence)

C21_Witness ==
    /\ RulesReturned
    /\ PredictRequest.smc = None
    /\ PredictRequest.volume = None
    /\ PredictResponse.action = "SHORT"
    /\ PredictResponse.smcAnalysis = <<"No SMC data">>
    /\ PredictResponse.volumeAnalysis = <<"No volume data">>

\* A direct call of calculate_trade_levels that returned, for a direction
\* and a price above zero.
LevelsReturnedFor(action) ==
    /\ Returned("calculate_trade_levels")
    /\ called.args.action = action
    /\ FracLt(Whole(0), called.args.current_price)

FracSame(a, b) == ~FracLt(a, b) /\ ~FracLt(b, a)

\* The range used: 1% of the price when the one supplied is <= 0.
RangeUsed ==
    IF FracLt(Whole(0), called.args.atr) THEN called.args.atr
    ELSE FracMul(called.args.current_price, <<1, 100>>)

\* 1.5 + 2 x confidence
RewardMultiple == FracAdd(<<3, 2>>, FracMul(Whole(2), called.args.confidence))

HighestOf(stops) == CHOOSE s \in stops : \A o \in stops : FracLe(o, s)

LowestOf(stops) == CHOOSE s \in stops : \A o \in stops : FracLe(s, o)

\* The levels returned for a stop and a target: none when either is <= 0,
\* else each rounded to cents.
LevelsStated(stop, target) ==
    IF FracLe(stop, Whole(0)) \/ FracLe(target, Whole(0)) THEN returned[1] = NoLevels
    ELSE /\ DOMAIN returned[1] = LevelKeys
         /\ returned[1].entry = Round(called.args.current_price, 2)
         /\ returned[1].stopLoss = Round(stop, 2)
         /\ returned[1].takeProfit = Round(target, 2)

\* The positions of the bullish zones below the price, and the nearest of
\* them: the highest high, the first in the list on ties.
BullishZonesBelow ==
    {i \in DOMAIN called.args.smc.orderBlocks :
        /\ called.args.smc.orderBlocks[i].type = "BULLISH"
        /\ FracLt(called.args.smc.orderBlocks[i].high, called.args.current_price)}

NearestBullishZoneBelow ==
    called.args.smc.orderBlocks[
        CHOOSE i \in BullishZonesBelow :
            \A j \in BullishZonesBelow :
                /\ FracLe(called.args.smc.orderBlocks[j].high,
                          called.args.smc.orderBlocks[i].high)
                /\ FracSame(called.args.smc.orderBlocks[j].high,
                            called.args.smc.orderBlocks[i].high) => i <= j]

LongZoneStop ==
    IF BullishZonesBelow # {} THEN FracMul(<<499, 500>>, NearestBullishZoneBelow.low)
    ELSE FracSub(called.args.current_price, FracMul(<<3, 2>>, RangeUsed))

LongGapStops ==
    {FracMul(<<499, 500>>, called.args.smc.fairValueGaps[i].low) :
        i \in {k \in DOMAIN called.args.smc.fairValueGaps :
                 /\ called.args.smc.fairValueGaps[k].type = "BULLISH"
                 /\ FracLt(called.args.smc.fairValueGaps[k].high,
                           called.args.current_price)}}

LongStopStated == HighestOf({LongZoneStop} \cup LongGapStops)

LongTargetStated ==
    FracAdd(called.args.current_price,
            FracMul(FracSub(called.args.current_price, LongStopStated), RewardMultiple))

\* C25: for direction Long and price > 0 the stop starts at price - 1.5 x
\* atr (atr 1% of price when <= 0); if a Bullish zone lies below price the
\* stop becomes 0.998 x low of the nearest such zone (tie-break as
\* nearestZone); the final stop is the maximum of that stop and 0.998 x low
\* of every Bullish gap below price; risk = entry - stop and target = entry
\* + risk x (1.5 + 2 x confidence).  The levels returned are these values
\* rounded to cents.
C25_LongLevels ==
    LevelsReturnedFor("LONG") => LevelsStated(LongStopStated, LongTargetStated)

\* A gap in the middle of the list gives a tighter stop than the zone.
C25_Witness ==
    /\ LevelsReturnedFor("LONG")
    /\ called.args.smc.orderBlocks = <<BullishZoneFar, BearishZoneFar>>
    /\ called.args.smc.fairValueGaps =
           <<BullishGapMiddle, BullishGapBelow, BullishGapDeep,
             BearishGapMiddle, BearishGapAbove, BearishGapHigh>>
    /\ called.args.confidence = <<1, 2>>
    /\ LongZoneStop = <<4491, 50>>
    /\ LongStopStated = <<11976, 125>>
    /\ returned[1].stopLoss = <<9581, 100>>
    /\ returned[1].takeProfit = <<2762, 25>>

\* The positions of the bearish zones above the price, and the nearest of
\* them: the smallest low, the first in the list on ties.
BearishZonesAbove ==
    {i \in DOMAIN called.args.smc.orderBlocks :
        /\ called.args.smc.orderBlocks[i].type = "BEARISH"
        /\ FracLt(called.args.current_price, called.args.smc.orderBlocks[i].low)}

NearestBearishZoneAbove ==
    called.args.smc.orderBlocks[
        CHOOSE i \in BearishZonesAbove :
            \A j \in BearishZonesAbove :
                /\ FracLe(called.args.smc.orderBlocks[i].low,
                          called.args.smc.orderBlocks[j].low)
                /\ FracSame(called.args.smc.orderBlocks[j].low,
                            called.args.smc.orderBlocks[i].low) => i <= j]

ShortZoneStop ==
    IF BearishZonesAbove # {} THEN FracMul(<<501, 500>>, NearestBearishZoneAbove.high)
    ELSE FracAdd(called.args.current_price, FracMul(<<3, 2>>, RangeUsed))

ShortGapStops ==
    {FracMul(<<501, 500>>, called.args.smc.fairValueGaps[i].high) :
        i \in {k \in DOMAIN called.args.smc.fairValueGaps :
                 /\ called.args.smc.fairValueGaps[k].type = "BEARISH"
                 /\ FracLt(called.args.current_price,
                           called.args.smc.fairValueGaps[k].low)}}

ShortStopStated == LowestOf({ShortZoneStop} \cup ShortGapStops)

ShortTargetStated ==
    FracSub(called.args.current_price,
            FracMul(FracSub(ShortStopStated, called.args.current_price), RewardMultiple))

\* C26: for direction Short and price > 0 the levels mirror Long: the stop
\* starts at price + 1.5 x atr; if a Bearish zone lies above price the stop
\* becomes 1.002 x high of the nearest such zone (smallest low above price,
\* first on ties); the final stop is the minimum of that stop and 1.002 x
\* high of every Bearish gap above price; risk = stop - entry and target =
\* entry - risk x (1.5 + 2 x confidence).  The levels returned are these
\* values rounded to cents.
C26_ShortLevels ==
    LevelsReturnedFor("SHORT") => LevelsStated(ShortStopStated, ShortTargetStated)

\* Of two zones that tie on their low the first gives the stop, and no gap
\* above the price gives a tighter one.
C26_Witness ==
    /\ LevelsReturnedFor("SHORT")
    /\ called.args.smc.orderBlocks =
           <<BullishZoneNearTwin, BullishZoneNear, BearishZoneNearTwin, BearishZoneNear>>
    /\ called.args.smc.fairValueGaps =
           <<BullishGapMiddle, BullishGapBelow, BullishGapDeep,
             BearishGapMiddle, BearishGapAbove, BearishGapHigh>>
    /\ called.args.confidence = <<1, 2>>
    /\ ShortZoneStop = FracMul(<<501, 500>>, Whole(104))
    /\ ShortStopStated = FracMul(<<501, 500>>, Whole(104))
    /\ returned[1].stopLoss = <<10421, 100>>

\* Well-formed inputs of calculate_trade_levels: price > 0, confidence >= 0,
\* every zone and gap with 0 < low <= high.
Bounded(z) == FracLt(Whole(0), z.low) /\ FracLe(z.low, z.high)

WellFormedLevelInputs ==
    /\ FracLt(Whole(0), called.args.current_price)
    /\ FracLe(Whole(0), called.args.confidence)
    /\ \A i \in DOMAIN called.args.smc.orderBlocks : Bounded(called.args.smc.orderBlocks[i])
    /\ \A i \in DOMAIN called.args.smc.fairValueGaps :
           Bounded(called.args.smc.fairValueGaps[i])

\* C28: for well-formed inputs any non-empty result of
\* calculate_trade_levels is correctly ordered before rounding: for Long
\* stop < entry < target, for Short target < entry < stop, so the risk is
\* strictly positive and the recomputed risk/reward ratio equals the
\* multiple 1.5 + 2 x confidence (returned rounded to 2 decimals).
C28_LevelsOrdered ==
    (Returned("calculate_trade_levels") /\ WellFormedLevelInputs /\ returned[1] # NoLevels) =>
        /\ called.args.action = "LONG" =>
               /\ FracLt(LevelStop, called.args.current_price)
               /\ FracLt(called.args.current_price, LevelTarget)
        /\ called.args.action = "SHORT" =>
               /\ FracLt(LevelTarget, called.args.current_price)
               /\ FracLt(called.args.current_price, LevelStop)
        /\ FracLt(Whole(0), LevelRisk)
        /\ ActualRr(called.args.current_price, LevelStop, LevelTarget) = RewardMultiple
        /\ returned[1].riskRewardRatio = Round(RewardMultiple, 2)

C28_Witness ==
    /\ Returned("calculate_trade_levels")
    /\ WellFormedLevelInputs
    /\ returned[1] # NoLevels
    /\ called.args.action = "SHORT"
    /\ called.args.smc.orderBlocks # <<>>
    /\ called.args.smc.fairValueGaps # <<>>
    /\ called.args.confidence = <<19, 20>>
    /\ FracLt(LevelTarget, called.args.current_price)
    /\ FracLt(called.args.current_price, LevelStop)
    /\ returned[1].riskRewardRatio = <<17, 5>>

\* The confidence the claim gives a Long or Short proposal.
ProposedConfidenceStated ==
    FracMin(FracAdd(<<1, 2>>, FracMul(FracAbs(FeatureBias(PredictRequest)), <<3, 10>>)),
            <<3, 4>>)

\* The hold override is consulted (line 331).
OverrideConsulted ==
    /\ PredictRequest.smc # None
    /\ PredictRequest.volume # None
    /\ PredictTrace.proposal # "HOLD"

\* Rule (a) of the request: no active session and volume ratio < 0.5.
RequestRuleA ==
    /\ PredictRequest.smc[1].killZone = "NONE"
    /\ FracLt(PredictRequest.volume[1].volumeRatio, <<1, 2>>)

\* Rule (b) of the request: the proposal's confidence is below 0.55 and
\* the structure direction is set.
RequestRuleB ==
    /\ FracLt(PredictTrace.proposed_confidence, <<11, 20>>)
    /\ PredictRequest.smc[1].bosDirection # "NONE"

\* C30: on the rule-based path a Long or Short proposal has |bias| > 0.2
\* and confidence min(0.5 + 0.3 x |bias|, 0.75), strictly above 0.55; so
\* rule (b) of the hold override never holds where the override is
\* consulted and its reason never reaches a response; whenever the override
\* fires, rule (a) holds, the decision is HOLD, the base and the blended
\* confidence are 0.6 and both modifiers are 1.0.
C30_OverrideOnlyRuleA ==
    RulesReturned =>
        /\ PredictTrace.proposal \in {"LONG", "SHORT"} =>
               /\ FracLt(<<1, 5>>, FracAbs(FeatureBias(PredictRequest)))
               /\ PredictTrace.proposed_confidence = ProposedConfidenceStated
               /\ FracLt(<<11, 20>>, PredictTrace.proposed_confidence)
        /\ OverrideConsulted => ~RequestRuleB
        /\ PredictResponse.smcAnalysis # <<"Weak signal against market structure">>
        /\ PredictTrace.should_hold =>
               /\ OverrideConsulted
               /\ RequestRuleA
               /\ PredictResponse.smcAnalysis = <<"Outside kill zone with very low volume">>
               /\ PredictResponse.action = "HOLD"
               /\ PredictTrace.base_confidence = <<3, 5>>
               /\ PredictTrace.blended = <<3, 5>>
               /\ PredictTrace.smc_modifier = Whole(1)
               /\ PredictTrace.volume_modifier = Whole(1)

\* The weakest Long proposal (bias 0.22, confidence 0.566) on a request
\* whose structure direction is set, overridden through rule (a).
C30_Witness ==
    /\ RulesReturned
    /\ PredictTrace.should_hold
    /\ PredictTrace.proposal = "LONG"
    /\ PredictTrace.proposed_confidence = <<283, 500>>
    /\ PredictRequest.smc[1].bosDirection = "BULLISH"
    /\ RequestRuleA
    /\ PredictResponse.action = "HOLD"
    /\ PredictTrace.blended = <<3, 5>>

\* The price the last step traded at: the close of the row before the
\* advance.
SteppedPrice == Close(current_step - 1)

\* The unrealized return of the position the last step left open.
UnrealizedAfterStep ==
    IF position = 1 THEN Frac(SteppedPrice - entry_price, entry_price)
    ELSE IF position = -1 THEN Frac(entry_price - SteppedPrice, entry_price)
    ELSE Whole(0)

RewardBeforePenalty ==
    FracAdd(FracMul(Frac(total_pnl, initial_balance), Whole(100)),
            FracMul(UnrealizedAfterStep, Whole(10)))

\* C23: the reward returned by step is (cumulativeRealizedPnl /
\* initialBalance) x 100 + unrealized x 10, before any churn penalty of
\* 0.1, computed from the state after the action was applied: unrealized
\* is (currentPrice - entryPrice)/entryPrice for an open Long,
\* (entryPrice - currentPrice)/entryPrice for an open Short, 0 when flat.
C23_RewardFormula ==
    lastOp = "step" =>
        \/ ret.reward = RewardBeforePenalty
        \/ ret.reward = FracSub(RewardBeforePenalty, <<1, 10>>)

C23_Witness ==
    /\ lastOp = "step"
    /\ position = -1
    /\ entry_price # SteppedPrice
    /\ FracLt(UnrealizedAfterStep, Whole(0))
    /\ ret.reward = RewardBeforePenalty

\* The steps elapsed past warm-up when the last step ran, measured before
\* its advance.
StepsSinceWarmup == (current_step - 1) - lookback_window

\* tradeCount / stepsSinceWarmup > 0.3, the trade log as the last step left
\* it.
Churning == 10 * Len(trades) > 3 * StepsSinceWarmup

\* C24: step subtracts 0.1 from the reward exactly when at least two steps
\* have elapsed past warm-up (stepIndex - lookbackWindow, measured before
\* the advance, is >= 2) and tradeCount / stepsSinceWarmup > 0.3, a trade
\* closed in this same step included; in every other case no penalty is
\* applied, and the penalty is at most 0.1 per step.
C24_ChurnPenalty ==
    lastOp = "step" =>
        ret.reward = IF StepsSinceWarmup >= 2 /\ Churning
                     THEN FracSub(RewardBeforePenalty, <<1, 10>>)
                     ELSE RewardBeforePenalty

\* The penalty for a single trade that was closed in the penalised step.
C24_Witness ==
    /\ lastOp = "step"
    /\ StepsSinceWarmup = 3
    /\ actions = <<0, 0, 1, 0>>
    /\ Len(trades) = 1
    /\ ret.reward = FracSub(RewardBeforePenalty, <<1, 10>>)

\* C27 as stated: reset() returns the observation of row stepIndex =
\* lookbackWindow, and step builds the observation it returns from the
\* current row before stepIndex is advanced.
C27_AsStated ==
    /\ lastOp = "reset" => ret.obs.row = lookback_window
    /\ lastOp = "step" =>
           /\ ret.obs.row = current_step - 1
           /\ ret.obs.close = Close(current_step - 1)

\* C27, amended: each observation is built from the row at the stepIndex
\* the call leaves: reset() returns the observation of row lookbackWindow,
\* and step builds the observation it returns after stepIndex is advanced,
\* from the row after the one it traded at, with the position, the
\* realized P&L and the time position of the state after the transition.
C27_ObservationRow ==
    lastOp \in {"reset", "step"} =>
        /\ ret.obs.row = current_step
        /\ ret.obs.row = lookback_window + Len(actions)
        /\ ret.obs.close = Close(current_step)
        /\ ret.obs.position = position
        /\ ret.obs.pnl = Frac(total_pnl, initial_balance)
        /\ ret.obs.time = Frac(2 * current_step - SeriesLength, SeriesLength)

C27_Witness ==
    /\ lastOp = "step"
    /\ Len(actions) = 2
    /\ position = 1
    /\ ret.obs.row = lookback_window + 2
    /\ ret.obs.close = Close(lookback_window + 2)
    /\ Close(lookback_window + 2) # Close(lookback_window + 1)

\* The steps an episode takes: seriesLength - 1 - lookbackWindow.
EpisodeSteps == SeriesLength - 1 - lookback_window

RowsOfSeries == 0 .. SeriesLength - 1

\* C29: for a series with at least lookbackWindow + 2 rows, an episode
\* driven from reset() by any action sequence terminates after exactly
\* seriesLength - 1 - lookbackWindow steps; until termination every row
\* index read by step (the current row and the one before it) and by the
\* observation builder lies within [0, seriesLength - 1]; the evaluation
\* loop that steps until terminated always finishes.
C29_EpisodeTerminates ==
    /\ [](lastOp = "step" =>
              /\ Len(actions) <= EpisodeSteps
              /\ ret.terminated <=> Len(actions) = EpisodeSteps)
    /\ [](lastOp \in {"reset", "step"} =>
              /\ ret.obs.row \in RowsOfSeries
              /\ ~ret.terminated =>
                     /\ current_step \in RowsOfSeries
                     /\ current_step - 1 \in RowsOfSeries
                     /\ current_step + 1 \in RowsOfSeries)
    /\ <>(lastOp = "step" /\ ret.terminated)

C29_Witness ==
    /\ SeriesLength = lookback_window + LongTail
    /\ lastOp = "step"
    /\ Len(actions) = LongTail - 1
    /\ ret.terminated
    /\ ret.obs.row = SeriesLength - 1

----------------------------------------------------------------------------
(* Properties of the trainer. *)

\* The usable rows of the series the last call was given.
UsableRows(call) == Len(PrepareData(call.args.data))

====
